---------------------------- MODULE Spec2Model ----------------------------
(***************************************************************************)
(* The gateway session of src/discord.rs (Discord::connect_bot,            *)
(* Discord::reconnect, Discord::next) driven by the outer run loop of      *)
(* src/bin/markov.rs, with the peer and the heartbeat timer as the         *)
(* environment.                                                            *)
(***************************************************************************)
EXTENDS Integers, Sequences, FiniteSets, TLC

VARIABLES
    pc,                   \* position of main: connect, next, resume, got_msg, err, exited, aborted
    in_loop,              \* main has entered its `loop` (markov.rs:73)
    token,                \* Discord.token
    session_id,           \* Discord.session_id
    last_seq,             \* Discord.last_seq
    ack,                  \* Discord.ack: TRUE is Some(()), FALSE is None
    heartbeat_interval,   \* Discord.heartbeat_interval: the Interval and the connection whose hello armed it
    wsreader,             \* Discord.wsreader: the connection it reads
    wswriter,             \* Discord.wswriter: the connection it writes
    prebuf,               \* Discord.prebuf
    user_id,              \* Discord.user_id
    tick_ready,           \* the Interval's Delay has elapsed
    inbox,                \* what Owned::read will yield next on the connection of wsreader
    wire,                 \* the payloads the last step wrote to the transport
    spawned,              \* the REST tasks the last step spawned
    ret,                  \* what next() (or main) returned
    channel_chains,       \* markov.rs:65
    guild_chains,         \* markov.rs:67
    encountered_channels, \* markov.rs:69
    whole_guild_logs,     \* BotOptions.whole_guild_logs
    hb_unacked,           \* history: a tick was handled and no op-11 payload processed since
    steps,                \* history: the steps the bring-up of the last step ran, in order
    seen_seq,             \* history: the s of the last payload processed that had one, or of the ready
    resumed,              \* history: reconnect() succeeded and no tick was handled since
    ack_arrived,          \* history: inbox holds an op-11 payload that arrived after the heartbeat still unacknowledged
    hs_nonce,             \* connect_gateway: the RequestKey generated for the upgrade request
    hs_res,               \* connect_gateway: the response to the upgrade request
    hs_out,               \* connect_gateway: its result
    hs_pc,                \* the bring-up exercise: which function is applied next
    key_bytes,            \* RequestKey::generate: the 16 bytes OsRng gave
    key_req,              \* the RequestKey generated
    key_resp,             \* the Sec-WebSocket-Accept value given to ResponseKey::from_str
    key_ok,               \* what RequestKey::verify returned
    dst,                  \* HttpsConnector::call: the Uri it is called with
    tls_out,              \* HttpsConnector::call: the Uri and the host it connects with
    cm_pc,                \* ChannelMessages::next: idle (not called), delay (line 161), request (line 172)
    next_res,             \* ChannelMessages.next_res: the items of the page not yet yielded
    next_msg_id,          \* ChannelMessages.next_msg_id
    limit,                \* ChannelMessages.limit: the remaining budget
    rate_limiter,         \* ChannelMessages.rate_limiter: the time left on the Delay
    page_limit,           \* next(): its local `limit`, the size of the page it asks for
    delay,                \* next(): the Delay it took from rate_limiter and awaits
    uri,                  \* next(): the request it has issued, its limit and its before cursor
    cm_ret,               \* what the last call of next() returned
    srv_total,            \* the server: the channel holds the messages srv_total, ..., 1, newest first
    srv_failures,         \* the server: requests it has failed so far
    budget,               \* history: the limit the reader was created with
    before_msg,           \* history: the before_msg the reader was created with
    yielded,              \* history: the items next() has returned, in order
    requested,            \* history: the page sizes asked for, in order
    since_ok,             \* history: the time since the last successful response
    honest,               \* history: every request was answered by the page the channel holds
    short_seen,           \* history: a page came back shorter than asked for
    ends,                 \* history: the calls of next() that returned Ok(None)
    cx_pc,                \* the codec exercise: which function is applied next
    wr_header,            \* the Header given to Header::bytes
    wr_msg,               \* the Message given to Message::write, its Context and the key MaskingKey::new gave
    frames,               \* the frames the peer sends, each a header and its payload
    trailer,              \* the bytes that follow in the reader
    stream,               \* the bytes the reader holds
    rd_header,            \* what Header::read returned
    rd_owned,             \* what Owned::read returned
    mask_key,             \* MaskingKey.key
    mask_payload,         \* the payload MaskingKey::apply works on
    mask_orig,            \* history: the payload before any application
    mask_applied,         \* history: the applications so far
    mk_pc,                \* main of markov.rs with next() taken as a whole: loop, exited, aborted
    live,                 \* what the `next` future of line 75 completes with, None while it is pending
    rx,                   \* the BacklogMessages queued in the unbounded channel of line 71
    old_messages,         \* the get_old_messages tasks that run, each with the guild id it was given
    send_tasks,           \* the send_message tasks that run
    stderr,               \* the line the last step printed
    rest_res,             \* the response the REST call of the last step got
    rest_out,             \* what get_success_response(_bytes) made of it
    lives,                \* history: the results next() has completed with
    sent,                 \* history: the items the fetch tasks sent, in order
    taken,                \* history: the items the backlog arm consumed, in order
    overtaken             \* history: a live event was taken while an item was queued

gateway_vars == <<pc, in_loop, token, session_id, last_seq, ack, heartbeat_interval,
                  wsreader, wswriter, prebuf, user_id, tick_ready, inbox, wire,
                  spawned, ret, channel_chains, guild_chains, encountered_channels,
                  whole_guild_logs, hb_unacked, steps, seen_seq, resumed,
                  ack_arrived>>

handshake_vars == <<hs_nonce, hs_res, hs_out, hs_pc, key_bytes, key_req, key_resp, key_ok,
                    dst, tls_out>>

\* The variables of the components that main's gateway loop does not touch.
history_vars == <<cm_pc, next_res, next_msg_id, limit, rate_limiter, page_limit, delay,
                  uri, cm_ret, srv_total, srv_failures, budget, before_msg, yielded, requested,
                  since_ok, honest, short_seen, ends>>

codec_vars == <<cx_pc, wr_header, wr_msg, frames, trailer, stream, rd_header, rd_owned,
                mask_key, mask_payload, mask_orig, mask_applied>>

consumer_vars == <<mk_pc, live, rx, old_messages, send_tasks, stderr, rest_res, rest_out,
                   lives, sent, taken, overtaken>>

other_vars == <<handshake_vars, history_vars, codec_vars, consumer_vars>>

\* What no step of the gateway loop changes: the options and the other components.
fixed_vars == <<whole_guild_logs, other_vars>>

vars == <<gateway_vars, other_vars>>

discord_vars == <<token, session_id, last_seq, ack, heartbeat_interval,
                  wsreader, wswriter, prebuf, user_id>>

caller_vars == <<channel_chains, guild_chains, encountered_channels>>

(***************************************************************************)
(* Bounds of the model.                                                    *)
(***************************************************************************)
MaxSeq == 1
MaxFeeds == 1

(***************************************************************************)
(* Option<T>: None is the empty set, Some(x) the singleton.                *)
(***************************************************************************)
None == {}
Some(x) == {x}
UnwrapOr(o, d) == IF o = {} THEN d ELSE CHOOSE x \in o : TRUE

\* Two connections are told apart; a new one is never the one in use.
Conns == {1, 2}
\* hello.d.heartbeat_interval, in milliseconds
Periods == {41250}
Seqs == 0 .. MaxSeq
Channels == {"c1"}
Guilds == {"g1"}
BotToken == "tok"

(***************************************************************************)
(* model::MessageReceived values a MESSAGE_CREATE payload may carry.       *)
(***************************************************************************)
Received(id, ch, g, content, author, mentions) ==
    [id |-> id, channel_id |-> ch, guild_id |-> g, content |-> content,
     author |-> author, mentions |-> mentions]

Plain == Received("i1", "c1", None, "a", "u1", {})
Mention == Received("i2", "c1", Some("g1"), "a", "u1", {"bot"})
Mine == Received("i3", "c1", Some("g1"), "", "bot", {})
MessagesReceived == {Plain, Mention, Mine}

\* Message::from_message_received
from_message_received(msg, uid) ==
    [is_me |-> msg.author = uid,
     mentioned |-> \E u \in msg.mentions : u = uid,
     message_id |-> msg.id,
     channel_id |-> msg.channel_id,
     guild_id |-> msg.guild_id,
     author_id |-> msg.author,
     content |-> msg.content]

(***************************************************************************)
(* Session-protocol payloads as serde decodes them.  json is FALSE for a   *)
(* text that does not decode as WsPayloadUnknownOp; d holds the            *)
(* MessageReceived the text decodes to, or nothing when it does not decode *)
(* as WsPayload<MessageReceived>.                                          *)
(***************************************************************************)
Payload(json, op, s, t, d) == [json |-> json, op |-> op, s |-> s, t |-> t, d |-> d]
NoPayload == Payload(FALSE, 0, None, None, None)

SeqOpts == {None} \cup {Some(n) : n \in Seqs}

TextPayloads ==
    {NoPayload}
    \cup {Payload(TRUE, o, sq, None, None) : o \in {9, 11}, sq \in SeqOpts}
    \cup {Payload(TRUE, 0, sq, Some("TYPING_START"), None) : sq \in SeqOpts}
    \cup {Payload(TRUE, 0, sq, Some("MESSAGE_CREATE"), dd) :
            sq \in SeqOpts, dd \in {None, Some(Plain)}}
    \cup {Payload(TRUE, o, None, Some("MESSAGE_CREATE"), Some(m)) :
            o \in {0, 11}, m \in {Mention, Mine}}

(***************************************************************************)
(* What Owned::read yields: an Owned of some kind over its bytes, or an    *)
(* error (kind "Err": transport failure or protocol error).                *)
(***************************************************************************)
Owned(kind, data, payload) == [kind |-> kind, data |-> data, payload |-> payload]
TextFrame(p) == Owned("Text", <<>>, p)
CloseFrame(data) == Owned("Close", data, NoPayload)
ReadErr == Owned("Err", <<>>, NoPayload)

CloseDatas == { <<3>>, <<3, 232>>, <<3, 233>>, <<3, 233, 97>>, <<233, 3>> }

Frames ==
    {TextFrame(p) : p \in TextPayloads}
    \cup {CloseFrame(b) : b \in CloseDatas}
    \cup {Owned(k, <<1>>, NoPayload) : k \in {"Binary", "Ping", "Pong"}}
    \cup {ReadErr}

\* ws::Message, as Owned::message builds it
Message(kind, text, close, bin) == [kind |-> kind, text |-> text, close |-> close, bin |-> bin]

message(owned) ==
    CASE owned.kind = "Text" -> Message("Text", owned.payload, None, <<>>)
      [] owned.kind = "Close" ->
            IF Len(owned.data) < 2
            THEN Message("Close", NoPayload, None, <<>>)
            ELSE Message("Close", NoPayload,
                         Some([code |-> ((owned.data[1] * 256) + owned.data[2]) % 65536,
                               reason |-> SubSeq(owned.data, 3, Len(owned.data))]),
                         <<>>)
      [] OTHER -> Message(owned.kind, NoPayload, None, owned.data)


(***************************************************************************)
(* Payloads the session writes: op 1 heartbeat (d = seq), op 2 identify,   *)
(* op 6 resume, each on the connection it was written to.                  *)
(***************************************************************************)
WsOut(conn, op, tok, sid, seq) ==
    [conn |-> conn, op |-> op, token |-> tok, session_id |-> sid, seq |-> seq]
Heartbeat(conn, seq) == WsOut(conn, 1, "", "", seq)
Identify(conn, tok) == WsOut(conn, 2, tok, "", 0)
Resume(conn, tok, sid, seq) == WsOut(conn, 6, tok, sid, seq)

(***************************************************************************)
(* The frames of connection bring-up: the first frame (hello) and the      *)
(* confirmation (ready), as Owned::read yields them and serde decodes      *)
(* them.  hello / ready are None when the text does not decode as          *)
(* WsPayload<Hello> / WsPayload<Ready>.                                    *)
(***************************************************************************)
HsFrame(kind, hello, ready) == [kind |-> kind, hello |-> hello, ready |-> ready]
Readys == {[session_id |-> "s1", user |-> "bot", s |-> None],
           [session_id |-> "s2", user |-> "bot", s |-> Some(MaxSeq)]}
FirstFrames ==
    {HsFrame("Err", None, None), HsFrame("Ping", None, None), HsFrame("Text", None, None)}
    \cup {HsFrame("Text", Some(p), None) : p \in Periods}
SecondFrames ==
    {HsFrame("Err", None, None), HsFrame("Close", None, None), HsFrame("Text", None, None)}
    \cup {HsFrame("Text", None, Some(r)) : r \in Readys}
ReadBufs == { <<>>, <<7>> }

DefaultFirst == HsFrame("Err", None, None)
DefaultSecond == HsFrame("Err", None, None)

\* What the environment answers during one connect_bot: each step's outcome,
\* later steps left at their defaults once a step has failed.
ConnInputs ==
    { i \in [tls_ok : BOOLEAN, url_ok : BOOLEAN, upgrade_ok : BOOLEAN,
             read_buf : ReadBufs, first : FirstFrames, write_ok : BOOLEAN,
             second : SecondFrames] :
        /\ (~i.tls_ok => ~i.url_ok)
        /\ (~i.url_ok => ~i.upgrade_ok)
        /\ (~i.upgrade_ok => i.read_buf = <<>> /\ i.first = DefaultFirst)
        /\ (i.first.hello = None => ~i.write_ok)
        /\ (~i.write_ok => i.second = DefaultSecond) }

\* The same for one reconnect(): the client exists, and no confirmation is read.
ReconnInputs ==
    { i \in [url_ok : BOOLEAN, upgrade_ok : BOOLEAN, read_buf : ReadBufs,
             first : FirstFrames, write_ok : BOOLEAN] :
        /\ (~i.url_ok => ~i.upgrade_ok)
        /\ (~i.upgrade_ok => i.read_buf = <<>> /\ i.first = DefaultFirst)
        /\ (i.first.hello = None => ~i.write_ok) }

\* tokio::time::interval armed by the hello read on connection c
interval(c, period) == [conn |-> c, period |-> period]
NoInterval == [conn |-> 0, period |-> 0]

\* prebuf = if stream.read_buf.len() > 0 { Some(stream.read_buf) } else { None }
prebuf_of(read_buf) == IF Len(read_buf) > 0 THEN Some(read_buf) ELSE None

NoDiscord ==
    [token |-> "", session_id |-> "", last_seq |-> 0, ack |-> FALSE,
     heartbeat_interval |-> NoInterval, wsreader |-> 0, wswriter |-> 0,
     prebuf |-> None, user_id |-> ""]

Result(status, err, w, d) == [status |-> status, err |-> err, wire |-> w, discord |-> d]

\* The sequence of the ready payload defaulting to 1.
ready_seq_default1(ready) == UnwrapOr(ready.s, 1)

\* last_seq = ready.s.unwrap_or(0)
ready_seq(ready) == UnwrapOr(ready.s, 0)

(***************************************************************************)
(* Discord::connect_bot on a new connection c.                             *)
(***************************************************************************)
connect_bot(tok, c, i) ==
    IF ~i.tls_ok THEN Result("Err", "Tls", <<>>, NoDiscord)
    ELSE IF ~i.url_ok THEN Result("Err", "BadApiRequest", <<>>, NoDiscord)
    ELSE IF ~i.upgrade_ok THEN Result("Err", "Handshake", <<>>, NoDiscord)
    ELSE IF i.first.kind = "Err" THEN Result("Err", "WebSocket", <<>>, NoDiscord)
    ELSE IF i.first.kind # "Text" THEN Result("Panic", "", <<>>, NoDiscord)
    ELSE IF i.first.hello = None THEN Result("Err", "Serde", <<>>, NoDiscord)
    ELSE IF ~i.write_ok THEN Result("Err", "TokioIo", <<>>, NoDiscord)
    ELSE IF i.second.kind = "Err" THEN Result("Err", "WebSocket", <<Identify(c, tok)>>, NoDiscord)
    ELSE IF i.second.kind # "Text" THEN Result("Panic", "", <<Identify(c, tok)>>, NoDiscord)
    ELSE IF i.second.ready = None THEN Result("Err", "Serde", <<Identify(c, tok)>>, NoDiscord)
    ELSE LET hello == UnwrapOr(i.first.hello, 0)
             ready == CHOOSE r \in i.second.ready : TRUE
         IN Result("Ok", "", <<Identify(c, tok)>>,
                   [token |-> tok,
                    session_id |-> ready.session_id,
                    last_seq |-> ready_seq(ready),
                    ack |-> TRUE,
                    heartbeat_interval |-> interval(c, hello),
                    wsreader |-> c,
                    wswriter |-> c,
                    prebuf |-> prebuf_of(i.read_buf),
                    user_id |-> ready.user])

\* The operations connect_bot awaits, in the order of its body, up to and
\* including the first that fails (discord.rs:229-260).
connect_bot_steps(i) ==
    IF ~i.tls_ok THEN <<"connector">>
    ELSE IF ~i.url_ok THEN <<"connector", "bot_gateway_url">>
    ELSE IF ~i.upgrade_ok THEN <<"connector", "bot_gateway_url", "connect_gateway">>
    ELSE IF i.first.kind # "Text" \/ i.first.hello = None
         THEN <<"connector", "bot_gateway_url", "connect_gateway", "read_hello">>
    ELSE IF ~i.write_ok
         THEN <<"connector", "bot_gateway_url", "connect_gateway", "read_hello", "interval",
                "write_identify">>
    ELSE <<"connector", "bot_gateway_url", "connect_gateway", "read_hello", "interval",
           "write_identify", "read_ready">>

\* The same for reconnect (discord.rs:284-312): nothing is read after the resume.
reconnect_steps(i) ==
    IF ~i.url_ok THEN <<"bot_gateway_url">>
    ELSE IF ~i.upgrade_ok THEN <<"bot_gateway_url", "connect_gateway">>
    ELSE IF i.first.kind # "Text" \/ i.first.hello = None
         THEN <<"bot_gateway_url", "connect_gateway", "read_hello">>
    ELSE <<"bot_gateway_url", "connect_gateway", "read_hello", "interval", "write_resume">>

\* The heartbeat written with sequence 0.
heartbeat_payload_seq0(c, seq) == Heartbeat(c, 0)

\* The op-1 payload of the interval arm, d: self.last_seq (discord.rs:404-409)
heartbeat_payload(c, seq) == Heartbeat(c, seq)

\* The resume written with sequence 0.
resume_payload_seq0(c, tok, sid, seq) == Resume(c, tok, sid, 0)

\* The op-6 payload reconnect() writes (discord.rs:302-312)
resume_payload(c, tok, sid, seq) == Resume(c, tok, sid, seq)

(***************************************************************************)
(* Discord::reconnect on a new connection c, from the session self.  The   *)
(* result's discord is self with the fields the call assigned.             *)
(***************************************************************************)
reconnect(self, c, i) ==
    IF ~i.url_ok THEN Result("Err", "BadApiRequest", <<>>, self)
    ELSE IF ~i.upgrade_ok THEN Result("Err", "Handshake", <<>>, self)
    ELSE IF i.first.kind = "Err" THEN Result("Err", "WebSocket", <<>>, self)
    ELSE IF i.first.kind # "Text" THEN Result("Panic", "", <<>>, self)
    ELSE IF i.first.hello = None THEN Result("Err", "Serde", <<>>, self)
    ELSE LET armed == [self EXCEPT !.heartbeat_interval = interval(c, UnwrapOr(i.first.hello, 0))]
         IN IF ~i.write_ok THEN Result("Err", "TokioIo", <<>>, armed)
            ELSE Result("Ok", "",
                        <<resume_payload(c, self.token, self.session_id, self.last_seq)>>,
                        [armed EXCEPT !.wsreader = c, !.wswriter = c,
                                      !.prebuf = prebuf_of(i.read_buf)])

(***************************************************************************)
(* Discord::next: the race of the two wait sources and the two handlers.   *)
(***************************************************************************)
\* The select with its arms in the other order: the message first.
select_message_first(interval_ready, message_ready) ==
    IF message_ready THEN "message"
    ELSE IF interval_ready THEN "interval"
    ELSE "pending"

\* futures::select_biased! { _ = interval => ..., msg_res = message => ... }
select_biased(interval_ready, message_ready) ==
    IF interval_ready THEN "interval"
    ELSE IF message_ready THEN "message"
    ELSE "pending"

\* The slot read without being emptied (as_ref() for take()).
ack_not_taken(a) == a

\* self.ack.take() leaves None behind
ack_after_take(a) == FALSE

\* The sequence kept at its maximum.
update_seq_max(seq, s) == IF UnwrapOr(s, seq) > seq THEN UnwrapOr(s, seq) ELSE seq

\* if let Some(s) = next.s { self.last_seq = s; }
update_seq(seq, s) == IF s # None THEN UnwrapOr(s, seq) ELSE seq

\* The slot refilled by the client's own opcode.
update_ack_op1(a, op) == IF op = 1 THEN TRUE ELSE a

\* if next.op == 11 { self.ack = Some(()); }
update_ack(a, op) == IF op = 11 THEN TRUE ELSE a

\* The event type tested on op-0 payloads only.
is_message_create_op0(p) == p.op = 0 /\ p.t = Some("MESSAGE_CREATE")

\* if let Some("MESSAGE_CREATE") = next.t.as_deref()
is_message_create(p) == p.t = Some("MESSAGE_CREATE")

\* The resume request taken from close code 1000.
is_resume_close_1000(m) == m.kind = "Close" /\ \E c \in m.close : c.code = 1000

\* ws::Message::Close(Some((1001, _)))
is_resume_close(m) == m.kind = "Close" /\ \E c \in m.close : c.code = 1001

Outcome(out, seq, a, msg, err) ==
    [out |-> out, last_seq |-> seq, ack |-> a, msg |-> msg, err |-> err]

\* The message dropped without an error.
unexpected_absorbed(owned, seq, a) == Outcome("none", seq, a, None, "")

\* _ => return Err(Error::UnexpectedWebsocketResponse(owned_message)): the
\* error holds the message read.
unexpected(owned, seq, a) ==
    Outcome("err", seq, a, Some(owned), "UnexpectedWebsocketResponse")

\* The message arm of the select (discord.rs:416-442): out is "msg" (an
\* event to return), "none" (absorbed), "reconnect" or "err".
on_message(owned, seq, a, uid) ==
    IF owned.kind = "Err" THEN Outcome("err", seq, a, None, "WebSocket")
    ELSE LET m == message(owned)
         IN IF m.kind = "Text"
            THEN IF ~m.text.json THEN Outcome("err", seq, a, None, "Serde")
                 ELSE LET seq2 == update_seq(seq, m.text.s)
                          a2 == update_ack(a, m.text.op)
                      IN IF is_message_create(m.text)
                         THEN IF m.text.d = None
                              THEN Outcome("err", seq2, a2, None, "Serde")
                              ELSE Outcome("msg", seq2, a2,
                                           {from_message_received(r, uid) : r \in m.text.d}, "")
                         ELSE Outcome("none", seq2, a2, None, "")
            ELSE IF is_resume_close(m) THEN Outcome("reconnect", seq, a, None, "")
            ELSE unexpected(owned, seq, a)

Ret(tag, err, msg) == [tag |-> tag, err |-> err, msg |-> msg]
Pending == Ret("Pending", "", None)

Self ==
    [token |-> token, session_id |-> session_id, last_seq |-> last_seq, ack |-> ack,
     heartbeat_interval |-> heartbeat_interval, wsreader |-> wsreader,
     wswriter |-> wswriter, prebuf |-> prebuf, user_id |-> user_id]

Install(d) ==
    /\ token' = d.token
    /\ session_id' = d.session_id
    /\ last_seq' = d.last_seq
    /\ ack' = d.ack
    /\ heartbeat_interval' = d.heartbeat_interval
    /\ wsreader' = d.wsreader
    /\ wswriter' = d.wswriter
    /\ prebuf' = d.prebuf
    /\ user_id' = d.user_id

(***************************************************************************)
(* The opening handshake (discord.rs:504-548, ws.rs).  Header values are   *)
(* sequences of characters.                                                *)
(***************************************************************************)
Uppers == <<"A", "B", "C", "D", "E", "F", "G", "H", "I", "J", "K", "L", "M",
            "N", "O", "P", "Q", "R", "S", "T", "U", "V", "W", "X", "Y", "Z">>
Lowers == <<"a", "b", "c", "d", "e", "f", "g", "h", "i", "j", "k", "l", "m",
            "n", "o", "p", "q", "r", "s", "t", "u", "v", "w", "x", "y", "z">>
\* Characters outside visible ASCII, which HeaderValue::to_str refuses.
Opaque == {"\\xe9"}
Whitespace == {" ", "\\t"}

\* The case folding under which UniCase compares ASCII strings.
fold(c) == IF \E i \in 1..Len(Uppers) : Uppers[i] = c
           THEN Lowers[CHOOSE i \in 1..Len(Uppers) : Uppers[i] = c]
           ELSE c
\* UniCase::new(s), as the value its equality compares
UniCase(s) == [i \in 1..Len(s) |-> fold(s[i])]

\* h.to_str().ok()
to_str(h) == IF \E i \in 1..Len(h) : h[i] \in Opaque THEN None ELSE Some(h)

\* str::trim
RECURSIVE trim(_)
trim(s) == IF s = <<>> THEN s
           ELSE IF Head(s) \in Whitespace THEN trim(Tail(s))
           ELSE IF s[Len(s)] \in Whitespace THEN trim(SubSeq(s, 1, Len(s) - 1))
           ELSE s

\* http::StatusCode::SWITCHING_PROTOCOLS
SWITCHING_PROTOCOLS == 101
MAX_REQUEST_KEY_LEN == (16 \div 3) * 4 + 4
MAX_RESPONSE_KEY_LEN == (20 \div 3) * 4 + 4
MAGIC_GUID == <<"2","5","8","E","A","F","A","5","-","E","9","1","4","-","4","7","D","A","-",
                "9","5","C","A","-","C","5","A","B","0","D","C","8","5","B","1","1">>

\* base64::STANDARD: the alphabet, and "=" as the padding
STANDARD == Uppers \o Lowers \o <<"0", "1", "2", "3", "4", "5", "6", "7", "8", "9", "+", "/">>

\* The encoding without the padding (base64::STANDARD_NO_PAD).
RECURSIVE encode_no_pad(_)
encode_no_pad(input) ==
    IF input = <<>> THEN <<>>
    ELSE IF Len(input) = 1
         THEN <<STANDARD[(input[1] \div 4) + 1], STANDARD[((input[1] % 4) * 16) + 1]>>
    ELSE IF Len(input) = 2
         THEN <<STANDARD[(input[1] \div 4) + 1],
                STANDARD[((input[1] % 4) * 16) + (input[2] \div 16) + 1],
                STANDARD[((input[2] % 16) * 4) + 1]>>
    ELSE <<STANDARD[(input[1] \div 4) + 1],
           STANDARD[((input[1] % 4) * 16) + (input[2] \div 16) + 1],
           STANDARD[((input[2] % 16) * 4) + (input[3] \div 64) + 1],
           STANDARD[(input[3] % 64) + 1]>> \o encode_no_pad(SubSeq(input, 4, Len(input)))

\* base64::encode_config_slice(input, STANDARD, output), as the characters
\* it writes: three bytes become four characters, the last group is padded.
RECURSIVE encode(_)
encode(input) ==
    IF input = <<>> THEN <<>>
    ELSE IF Len(input) = 1
         THEN <<STANDARD[(input[1] \div 4) + 1], STANDARD[((input[1] % 4) * 16) + 1], "=", "=">>
    ELSE IF Len(input) = 2
         THEN <<STANDARD[(input[1] \div 4) + 1],
                STANDARD[((input[1] % 4) * 16) + (input[2] \div 16) + 1],
                STANDARD[((input[2] % 16) * 4) + 1], "=">>
    ELSE <<STANDARD[(input[1] \div 4) + 1],
           STANDARD[((input[1] % 4) * 16) + (input[2] \div 16) + 1],
           STANDARD[((input[2] % 16) * 4) + (input[3] \div 64) + 1],
           STANDARD[(input[3] % 64) + 1]>> \o encode(SubSeq(input, 4, Len(input)))

\* A key as its buffer and its used length; as_ref is the used prefix.
Key(capacity, str) ==
    [bytes |-> [i \in 1..capacity |-> IF i <= Len(str) THEN str[i] ELSE "\\0"], size |-> Len(str)]
NoKey == [bytes |-> <<>>, size |-> 0]
as_ref(key) == SubSeq(key.bytes, 1, key.size)

\* RequestKey::generate from the 16 bytes OsRng gave; encode_config_slice
\* panics when the output does not fit the buffer.
RequestKey_generate(bytes) ==
    LET key == encode(bytes)
    IN IF Len(key) > MAX_REQUEST_KEY_LEN THEN [status |-> "Panic", key |-> NoKey]
       ELSE [status |-> "Ok", key |-> Key(MAX_REQUEST_KEY_LEN, key)]

\* The 16 random bytes of a nonce.
RandomBytes == {[i \in 1..16 |-> (17 * i) % 256], [i \in 1..16 |-> 255 - i]}
\* The nonces RequestKey::generate draws, as the strings sent in Sec-WebSocket-Key.
RequestKeys == {as_ref(RequestKey_generate(b).key) : b \in RandomBytes}

\* digest(&SHA1_FOR_LEGACY_USE_ONLY, data): 20 bytes that are a function of
\* the data.  The compression function of SHA-1 is replaced by a weighted
\* sum of the characters, which tells the nonces of the model apart.
RECURSIVE weigh(_, _, _)
weigh(data, i, j) ==
    IF i > Len(data) THEN 0
    ELSE LET code == IF \E k \in 1..Len(STANDARD) : STANDARD[k] = data[i]
                     THEN CHOOSE k \in 1..Len(STANDARD) : STANDARD[k] = data[i]
                     ELSE 0
         IN (code * (i + j) + weigh(data, i + 1, j)) % 256
digest(data) == [j \in 1..20 |-> weigh(data, 1, j)]

\* ResponseKey::from(RequestKey), as the string its equality compares: the
\* base64 of the SHA-1 digest of the nonce followed by the GUID.
ResponseKey_from(req) == encode(digest(req \o MAGIC_GUID))

\* ResponseKey::from_str
ResponseKey_from_str(string) ==
    LET trimmed == trim(string)
    IN IF Len(trimmed) > MAX_RESPONSE_KEY_LEN THEN None ELSE Some(trimmed)

\* The comparison that leaves the last character out.
verify_prefix(nonce, response) ==
    /\ Len(response) = Len(ResponseKey_from(nonce))
    /\ SubSeq(ResponseKey_from(nonce), 1, Len(response) - 1) = SubSeq(response, 1, Len(response) - 1)

\* RequestKey::verify
verify(nonce, response) == ResponseKey_from(nonce) = response

\* res.headers().get(..).and_then(|h| h.to_str().ok())
header_str(header) == UNION {to_str(h) : h \in header}

Response(status, upgrade, connection, accept) ==
    [status |-> status, upgrade |-> upgrade, connection |-> connection, accept |-> accept]
NoResponse == Response(0, None, None, None)

\* The verification without the check of the Connection header.
verify_without_connection(nonce, res) ==
    IF res.status # SWITCHING_PROTOCOLS THEN [ok |-> FALSE, res |-> res]
    ELSE IF {UniCase(s) : s \in header_str(res.upgrade)}
            # Some(UniCase(<<"W","E","B","S","O","C","K","E","T">>))
         THEN [ok |-> FALSE, res |-> res]
    ELSE LET value == UNION {ResponseKey_from_str(s) : s \in header_str(res.accept)}
         IN IF value # None /\ verify(nonce, CHOOSE v \in value : TRUE)
            THEN [ok |-> TRUE, res |-> res]
            ELSE [ok |-> FALSE, res |-> res]

\* Discord::verify_ws_handshake_response: Ok(res) or Err(Error::Handshake(res))
verify_ws_handshake_response(nonce, res) ==
    IF res.status # SWITCHING_PROTOCOLS THEN [ok |-> FALSE, res |-> res]
    ELSE IF {UniCase(s) : s \in header_str(res.upgrade)}
            # Some(UniCase(<<"W","E","B","S","O","C","K","E","T">>))
         THEN [ok |-> FALSE, res |-> res]
    ELSE IF {UniCase(s) : s \in header_str(res.connection)}
            # Some(UniCase(<<"U","P","G","R","A","D","E">>))
         THEN [ok |-> FALSE, res |-> res]
    ELSE LET value == UNION {ResponseKey_from_str(s) : s \in header_str(res.accept)}
         IN IF value # None
            THEN IF ~verify(nonce, CHOOSE v \in value : TRUE)
                 THEN [ok |-> FALSE, res |-> res]
                 ELSE [ok |-> TRUE, res |-> res]
            ELSE [ok |-> FALSE, res |-> res]

\* What connect_gateway returns: the Upgraded connection, or the error.
GatewayResult(status, err, res, upgraded) ==
    [status |-> status, err |-> err, res |-> res, upgraded |-> upgraded]
NoGatewayResult == GatewayResult("Pending", "", NoResponse, FALSE)

\* Discord::connect_gateway from the response on: the verification, then
\* on_upgrade, which may fail in hyper.
connect_gateway(nonce, res, upgrade_ok) ==
    LET v == verify_ws_handshake_response(nonce, res)
    IN IF ~v.ok THEN GatewayResult("Err", "Handshake", v.res, FALSE)
       ELSE IF ~upgrade_ok THEN GatewayResult("Err", "Hyper", NoResponse, FALSE)
       ELSE GatewayResult("Ok", "", NoResponse, TRUE)

(***************************************************************************)
(* HttpsConnector::call (tls.rs:114-150).  A Uri is its scheme, host, port *)
(* and path_and_query, each an Option.                                     *)
(***************************************************************************)
Uri_parts(scheme, host, port, path_and_query) ==
    [scheme |-> scheme, host |-> host, port |-> port, path_and_query |-> path_and_query]
NoUriParts == Uri_parts(None, None, None, None)
HTTPS_PORT == 443

\* dst_builder.build(): a scheme needs an authority and a path, and an
\* authority with a path needs a scheme.
build(parts) ==
    IF parts.scheme # None /\ (parts.host = None \/ parts.path_and_query = None)
    THEN [status |-> "Err", uri |-> NoUriParts]
    ELSE IF parts.scheme = None /\ parts.host # None /\ parts.path_and_query # None
    THEN [status |-> "Err", uri |-> NoUriParts]
    ELSE [status |-> "Ok", uri |-> parts]

\* The port the inner HttpConnector connects to: the one of the Uri, or
\* the one of its scheme, 443 for https alone.
http_port(target) ==
    IF target.port # None THEN CHOOSE p \in target.port : TRUE
    ELSE IF target.scheme = Some("https") THEN HTTPS_PORT
    ELSE 80

TlsResult(status, host, target, port) ==
    [status |-> status, host |-> host, uri |-> target, port |-> port]
NoTlsResult == TlsResult("Pending", "", NoUriParts, 0)

\* The port overwritten for the https scheme alone.
call_https_only(d) ==
    IF d.port = None /\ d.host # None /\ d.scheme = Some("https")
    THEN LET host == CHOOSE h \in d.host : TRUE
             built == build(Uri_parts(d.scheme, d.host, Some(HTTPS_PORT), d.path_and_query))
         IN IF built.status = "Ok"
            THEN TlsResult("Ok", host, built.uri, http_port(built.uri))
            ELSE TlsResult("Err", "", NoUriParts, 0)
    ELSE TlsResult("Ok", UnwrapOr(d.host, ""), d, http_port(d))

\* HttpsConnector::call: the Uri handed to the inner connector, the port
\* that connector uses and the host of the TLS session.
call(d) ==
    IF d.port = None /\ d.host # None
    THEN LET host == CHOOSE h \in d.host : TRUE
             built == build(Uri_parts(d.scheme, d.host, Some(HTTPS_PORT), d.path_and_query))
         IN IF built.status = "Ok"
            THEN TlsResult("Ok", host, built.uri, http_port(built.uri))
            ELSE TlsResult("Err", "", NoUriParts, 0)
    ELSE TlsResult("Ok", UnwrapOr(d.host, ""), d, http_port(d))

\* No handshake is in progress.
NoHandshake ==
    /\ hs_nonce = <<>>
    /\ hs_res = NoResponse
    /\ hs_out = NoGatewayResult
    /\ hs_pc = "none"
    /\ key_bytes = <<>>
    /\ key_req = NoKey
    /\ key_resp = <<>>
    /\ key_ok = None
    /\ dst = NoUriParts
    /\ tls_out = NoTlsResult

(***************************************************************************)
(* The History Reader (discord.rs:125-187, 483-494).  A message of the     *)
(* channel is named by its id; the channel holds the ids total, ..., 1,    *)
(* newest first.                                                           *)
(***************************************************************************)
\* The page size of one request: cmp::min(*n, 100), and 100 without a budget.
PAGE == 100
\* delay_for(Duration::from_secs(10))
RATE_LIMIT_SECS == 10

Min(a, b) == IF a < b THEN a ELSE b
saturating_sub(a, b) == IF a < b THEN 0 ELSE a - b

\* A page of the full size whatever is left of the budget.
page_size_full(n) == PAGE
\* let next = cmp::min(*n, 100)
page_size(n) == Min(n, PAGE)

\* A page counts as short only when it is empty.
is_short_page_empty(len, lim) == len = 0
\* if next_res.len() < limit
is_short_page(len, lim) == len < lim

\* The Delay never runs out.
delay_elapsed_never(d) == FALSE
\* The Delay counts as elapsed at once.
delay_elapsed_at_once(d) == TRUE
\* delay.await returns: no Delay was armed, or its time has run out
delay_elapsed(d) == d = None \/ d = Some(0)

\* What the channel holds before the cursor, newest first, at most lim of it.
ServerPage(total, before, lim) ==
    LET top == IF before = None THEN total
               ELSE Min(total, (CHOOSE b \in before : TRUE) - 1)
        n == Min(lim, top)
    IN [i \in 1..n |-> top - i + 1]

CmRet(kind, item, err) == [kind |-> kind, item |-> item, err |-> err]
CmPending == CmRet("Pending", 0, "")
\* format!("{}?limit={}&before={}", ..) and format!("{}?limit={}", ..)
Uri(lim, before) == [limit |-> lim, before |-> before]
NoUri == Uri(0, None)

\* No reader exists.
NoHistory ==
    /\ cm_pc = "none"
    /\ next_res = None
    /\ next_msg_id = None
    /\ limit = None
    /\ rate_limiter = None
    /\ page_limit = 0
    /\ delay = None
    /\ uri = NoUri
    /\ cm_ret = CmPending
    /\ srv_total = 0
    /\ srv_failures = 0
    /\ budget = None
    /\ before_msg = None
    /\ yielded = <<>>
    /\ requested = <<>>
    /\ since_ok = None
    /\ honest = TRUE
    /\ short_seen = FALSE
    /\ ends = 0

(***************************************************************************)
(* The frame codec (ws/header.rs, ws/message.rs) on bytes.  A u64 is the   *)
(* sequence of its eight bytes, most significant first.                    *)
(***************************************************************************)
Bytes == 0..255
U64(hi, lo) == <<0, 0, 0, 0, 0, 0, hi, lo>>
\* (x as u8) as u64
u64_from_u8(x) == U64(0, x)
\* self.payload_len > u16::max_value() as u64
gt_u16_max(len) == \E i \in 1..6 : len[i] # 0
\* The boundary of the short form taken one too high.
gt_125_off_by_one(len) == gt_u16_max(len) \/ len[7] # 0 \/ len[8] > 126
\* self.payload_len > 125
gt_125(len) == gt_u16_max(len) \/ len[7] # 0 \/ len[8] > 125
\* header.payload_len as usize.  No stream of the model holds 2^24 bytes, and
\* every length from there on is taken as 2^24.
as_usize(len) ==
    IF \E i \in 1..5 : len[i] # 0 THEN 16777216
    ELSE len[6] * 65536 + len[7] * 256 + len[8]

RECURSIVE xor(_, _)
\* a ^ b
xor(a, b) ==
    IF a = 0 THEN b
    ELSE IF b = 0 THEN a
    ELSE (((a % 2) + (b % 2)) % 2) + 2 * xor(a \div 2, b \div 2)

\* The key byte taken modulo 3.
key_index_mod3(ct) == ct % 3
\* self.key[ct % 4]
key_index(ct) == ct % 4
\* MaskingKey::apply; the key is the sequence of its four bytes
apply(key, payload) ==
    [i \in 1..Len(payload) |-> xor(payload[i], key[key_index(i - 1) + 1])]

Kinds == {"Continuation", "Text", "Binary", "Close", "Ping", "Pong"}
\* No kind is a control kind.
is_control_never(kind) == FALSE
\* Kind::is_control
is_control(kind) == kind \in {"Close", "Ping", "Pong"}
\* The opcode of a kind (header.rs:198-205) and the kind of an opcode (105-115)
opcode(kind) ==
    CASE kind = "Continuation" -> 0
      [] kind = "Text" -> 1
      [] kind = "Binary" -> 2
      [] kind = "Close" -> 8
      [] kind = "Ping" -> 9
      [] kind = "Pong" -> 10
\* The control opcodes taken as reserved too.
kind_of_data_only(op) ==
    CASE op = 0 -> "Continuation"
      [] op = 1 -> "Text"
      [] op = 2 -> "Binary"
      [] OTHER -> "Reserved"
kind_of(op) ==
    CASE op = 0 -> "Continuation"
      [] op = 1 -> "Text"
      [] op = 2 -> "Binary"
      [] op = 8 -> "Close"
      [] op = 9 -> "Ping"
      [] op = 10 -> "Pong"
      [] OTHER -> "Reserved"

Header(is_final, extensions, kind, payload_len, masking_key) ==
    [is_final |-> is_final, extensions |-> extensions, kind |-> kind,
     payload_len |-> payload_len, masking_key |-> masking_key]
NoHeader == Header(FALSE, <<FALSE, FALSE, FALSE>>, "Continuation", U64(0, 0), None)
bit(b, v) == IF b THEN v ELSE 0

\* Header::bytes, as the HeaderBytes it returns up to len
Header_bytes(self) ==
    LET first == bit(self.is_final, 128) + bit(self.extensions[1], 64)
                 + bit(self.extensions[2], 32) + bit(self.extensions[3], 16)
                 + opcode(self.kind)
        second == bit(self.masking_key # None, 128)
                  + (IF gt_u16_max(self.payload_len) THEN 127
                     ELSE IF gt_125(self.payload_len) THEN 126
                     ELSE self.payload_len[8])
        ext == IF gt_u16_max(self.payload_len) THEN self.payload_len
               ELSE IF gt_125(self.payload_len)
                    THEN <<self.payload_len[7], self.payload_len[8]>>
               ELSE <<>>
        key == IF self.masking_key = None THEN <<>>
               ELSE CHOOSE k \in self.masking_key : TRUE
    IN <<first, second>> \o ext \o key

\* What Header::read returns, and what it leaves unread in the reader.
HeaderResult(status, header, rest) == [status |-> status, header |-> header, rest |-> rest]
NoHeaderResult == HeaderResult("Pending", NoHeader, <<>>)

\* Header::read on a reader holding `reader`.  read_exact fails with Io
\* when the reader ends before the buffer is full.
Header_read(reader) ==
    IF Len(reader) < 2 THEN HeaderResult("Io", NoHeader, <<>>)
    ELSE
    LET first == reader[1]
        second == reader[2]
        rest == SubSeq(reader, 3, Len(reader))
        is_final == first \div 128 = 1
        extensions == <<(first \div 64) % 2 = 1, (first \div 32) % 2 = 1,
                        (first \div 16) % 2 = 1>>
        kind == kind_of(first % 16)
        has_mask == second \div 128 = 1
        payload_len == second % 128
    IN IF kind = "Reserved" THEN HeaderResult("ReservedOpcode", NoHeader, rest)
       ELSE IF is_control(kind) /\ payload_len >= 126
            THEN HeaderResult("InvalidLength", NoHeader, rest)
       ELSE IF is_control(kind) /\ ~is_final
            THEN HeaderResult("InvalidDataFrame", NoHeader, rest)
       ELSE
       LET start == IF payload_len = 126 THEN 2 ELSE IF payload_len = 127 THEN 8 ELSE 0
           need == start + bit(has_mask, 4)
       IN IF need = 0
          THEN HeaderResult("Ok", Header(is_final, extensions, kind,
                                         u64_from_u8(payload_len), None), rest)
          ELSE IF Len(rest) < need THEN HeaderResult("Io", NoHeader, <<>>)
          ELSE
          LET bytes == SubSeq(rest, 1, need)
              len == IF payload_len = 126 THEN U64(bytes[1], bytes[2])
                     ELSE IF payload_len = 127 THEN SubSeq(bytes, 1, 8)
                     ELSE u64_from_u8(payload_len)
              mask == IF has_mask THEN Some(SubSeq(bytes, start + 1, start + 4)) ELSE None
          IN HeaderResult("Ok", Header(is_final, extensions, kind, len, mask),
                          SubSeq(rest, need + 1, Len(rest)))

InRange(b, lo, hi) == lo <= b /\ b <= hi
\* s holds n continuation bytes from position i on
Conts(s, i, n) == Len(s) >= i + n - 1 /\ \A j \in i..(i + n - 1) : InRange(s[j], 128, 191)
RECURSIVE from_utf8(_)
\* str::from_utf8(s).is_ok()
from_utf8(s) ==
    IF s = <<>> THEN TRUE
    ELSE LET b == s[1]
             then(n) == from_utf8(SubSeq(s, n + 1, Len(s)))
         IN IF b < 128 THEN then(1)
            ELSE IF InRange(b, 194, 223) THEN Conts(s, 2, 1) /\ then(2)
            ELSE IF b = 224 THEN Len(s) >= 2 /\ InRange(s[2], 160, 191) /\ Conts(s, 3, 1) /\ then(3)
            ELSE IF InRange(b, 225, 236) \/ InRange(b, 238, 239) THEN Conts(s, 2, 2) /\ then(3)
            ELSE IF b = 237 THEN Len(s) >= 2 /\ InRange(s[2], 128, 159) /\ Conts(s, 3, 1) /\ then(3)
            ELSE IF b = 240 THEN Len(s) >= 2 /\ InRange(s[2], 144, 191) /\ Conts(s, 3, 2) /\ then(4)
            ELSE IF InRange(b, 241, 243) THEN Conts(s, 2, 3) /\ then(4)
            ELSE IF b = 244 THEN Len(s) >= 2 /\ InRange(s[2], 128, 143) /\ Conts(s, 3, 2) /\ then(4)
            ELSE FALSE

\* What Owned::read returns, and what it leaves unread in the reader.
OwnedResult(status, kind, data, rest) ==
    [status |-> status, kind |-> kind, data |-> data, rest |-> rest]
NoOwnedResult == OwnedResult("Pending", "", <<>>, <<>>)

\* The construction without the check of the text.
Owned_new_unchecked(kind, data, rest) ==
    IF kind = "Continuation" THEN OwnedResult("InvalidDataFrame", "", <<>>, rest)
    ELSE OwnedResult("Ok", kind, data, rest)
\* Owned::new
Owned_new(kind, data, rest) ==
    IF kind = "Text" /\ ~from_utf8(data) THEN OwnedResult("NonUtf8Text", "", <<>>, rest)
    ELSE IF kind = "Close" /\ Len(data) > 2 /\ ~from_utf8(SubSeq(data, 3, Len(data)))
         THEN OwnedResult("NonUtf8Text", "", <<>>, rest)
    ELSE IF kind = "Continuation" THEN OwnedResult("InvalidDataFrame", "", <<>>, rest)
    ELSE OwnedResult("Ok", kind, data, rest)

\* The key applied to everything read so far.
unmask_all(masking_key, payload, read) ==
    IF masking_key = None THEN payload \o read
    ELSE apply(CHOOSE k \in masking_key : TRUE, payload \o read)

\* if let Some(ref key) = header.masking_key { key.apply(&mut payload[start..]); }
\* with the bytes just read appended at start
unmask(masking_key, payload, read) ==
    IF masking_key = None THEN payload \o read
    ELSE payload \o apply(CHOOSE k \in masking_key : TRUE, read)

RECURSIVE read_loop(_, _, _, _)
\* The `loop` of Owned::read (message.rs:66-102) with the header `header`, the
\* payload read so far and the reader holding `reader`, and the construction
\* of line 103.  A non-final Continuation header of length 0 makes the loop
\* go round without reading: "Hang".
read_loop(header, message_kind, payload, reader) ==
    LET n == as_usize(header.payload_len)
    IN IF Len(reader) < n THEN OwnedResult("Io", "", <<>>, <<>>)
       ELSE
       LET read == SubSeq(reader, 1, n)
           rest == SubSeq(reader, n + 1, Len(reader))
           all == unmask(header.masking_key, payload, read)
       IN CASE header.kind = "Continuation" ->
                 IF header.is_final THEN Owned_new(message_kind, all, rest)
                 ELSE IF n = 0 THEN OwnedResult("Hang", "", <<>>, rest)
                 ELSE read_loop(header, message_kind, all, rest)
            [] header.kind \in {"Binary", "Text"} ->
                 IF Len(all) # n THEN OwnedResult("InvalidDataFrame", "", <<>>, rest)
                 ELSE IF header.is_final THEN Owned_new(message_kind, all, rest)
                 ELSE LET next == Header_read(rest)
                      IN IF next.status # "Ok" THEN OwnedResult(next.status, "", <<>>, next.rest)
                         ELSE read_loop(next.header, message_kind, all, next.rest)
            [] OTHER ->
                 IF ~header.is_final \/ Len(all) # n
                 THEN OwnedResult("InvalidDataFrame", "", <<>>, rest)
                 ELSE Owned_new(message_kind, all, rest)

\* Owned::read on a reader holding `reader`
Owned_read(reader) ==
    LET first == Header_read(reader)
    IN IF first.status # "Ok" THEN OwnedResult(first.status, "", <<>>, first.rest)
       ELSE read_loop(first.header, first.header.kind, <<>>, first.rest)

\* ws::Message over bytes: the text of Text, the bytes of Binary, Ping and
\* Pong, and for Close nothing or the code and the reason.
WsMessage(kind, data, close) == [kind |-> kind, data |-> data, close |-> close]
CloseOf(code, reason) == Some([code |-> code, reason |-> reason])

\* Owned::message (message.rs:108-132) on the kind and the bytes of an Owned
Owned_message(owned) ==
    IF owned.kind = "Close"
    THEN IF Len(owned.data) < 2 THEN WsMessage("Close", <<>>, None)
         ELSE WsMessage("Close", <<>>,
                        CloseOf((owned.data[1] * 256) + owned.data[2],
                                SubSeq(owned.data, 3, Len(owned.data))))
    ELSE WsMessage(owned.kind, owned.data, None)

\* The payload of a message as Message::write lays it out (message.rs:185-210)
Message_data(self) ==
    IF self.kind = "Close"
    THEN IF self.close = None THEN <<>>
         ELSE LET c == CHOOSE x \in self.close : TRUE
              IN <<(c.code \div 256) % 256, c.code % 256>> \o c.reason
    ELSE self.data

WriteResult(status, bytes) == [status |-> status, bytes |-> bytes]

\* Message::write (message.rs:151-221): the bytes it gives to the writer.
\* mask is what MaskingKey::new() returns when it is called: Some(key), or
\* None when OsRng fails.  No message of the model holds 2^16 bytes.
Message_write(self, ctx, mask) ==
    LET data == Message_data(self)
        len == Len(data)
    IN IF len = 0 THEN WriteResult("Ok", <<>>)
       ELSE IF ctx = "Client" /\ mask = None THEN WriteResult("Io", <<>>)
       ELSE LET key == IF ctx = "Client" THEN mask ELSE None
                header == Header(TRUE, <<FALSE, FALSE, FALSE>>, self.kind,
                                 U64(len \div 256, len % 256), key)
            IN WriteResult("Ok", Header_bytes(header)
                                 \o (IF key = None THEN data
                                     ELSE apply(CHOOSE k \in key : TRUE, data)))

Write(msg, ctx, mask) == [msg |-> msg, ctx |-> ctx, mask |-> mask]
NoWrite == Write(WsMessage("", <<>>, None), "", None)

\* Nothing is being encoded or decoded.
NoCodec ==
    /\ cx_pc = "none"
    /\ wr_header = NoHeader
    /\ wr_msg = NoWrite
    /\ frames = <<>>
    /\ trailer = <<>>
    /\ stream = <<>>
    /\ rd_header = NoHeaderResult
    /\ rd_owned = NoOwnedResult
    /\ mask_key = <<>>
    /\ mask_payload = <<>>
    /\ mask_orig = <<>>
    /\ mask_applied = 0

(***************************************************************************)
(* The REST helpers (discord.rs:334-379).  A response is its status and    *)
(* body; sent is FALSE when client.request failed, read is FALSE when a    *)
(* chunk of the body failed.                                               *)
(***************************************************************************)
RestResponse(ok, status, body, read) == [sent |-> ok, status |-> status, body |-> body, read |-> read]
NoRestResponse == RestResponse(FALSE, 0, "", FALSE)
RestResult(status, err, body) == [status |-> status, err |-> err, body |-> body]
NoRestResult == RestResult("Pending", "", "")

\* http::StatusCode::is_success
is_success(status) == 300 > status /\ status >= 200

\* Every response taken as a success.
get_success_response_any(res) ==
    IF ~res.sent THEN RestResult("Err", "Hyper", "") ELSE RestResult("Ok", "", "")

\* Discord::get_success_response: the body is read on the failure path only
get_success_response(res) ==
    IF ~res.sent THEN RestResult("Err", "Hyper", "")
    ELSE IF ~is_success(res.status)
         THEN IF ~res.read THEN RestResult("Err", "Hyper", "")
              ELSE RestResult("Err", "BadApiRequest", res.body)
    ELSE RestResult("Ok", "", "")

\* Discord::get_success_response_bytes: the body is read, then the status tested
get_success_response_bytes(res) ==
    IF ~res.sent THEN RestResult("Err", "Hyper", "")
    ELSE IF ~res.read THEN RestResult("Err", "Hyper", "")
    ELSE IF ~is_success(res.status) THEN RestResult("Err", "BadApiRequest", res.body)
    ELSE RestResult("Ok", "", res.body)

(***************************************************************************)
(* The consumer loop of markov.rs (73-101) and the tasks it spawns.        *)
(***************************************************************************)
\* The select with its arms in the other order: the backlog first.
select_backlog_first(next_ready, backlog_ready) ==
    IF backlog_ready THEN "backlog"
    ELSE IF next_ready THEN "next"
    ELSE "pending"

\* futures::select_biased! { msg_res = next => ..., backlog = rx.recv().fuse() => ... }
select_next_or_backlog(next_ready, backlog_ready) ==
    IF next_ready THEN "next"
    ELSE IF backlog_ready THEN "backlog"
    ELSE "pending"

\* BacklogMessage, with the position at which it was sent
BacklogMessage(n, msg, guild_id) == [n |-> n, msg |-> msg, guild_id |-> guild_id]

\* No consumer loop runs.
NoConsumer ==
    /\ mk_pc = "none"
    /\ live = None
    /\ rx = <<>>
    /\ old_messages = <<>>
    /\ send_tasks = 0
    /\ stderr = ""
    /\ rest_res = NoRestResponse
    /\ rest_out = NoRestResult
    /\ lives = 0
    /\ sent = <<>>
    /\ taken = <<>>
    /\ overtaken = FALSE

NoOther == NoHandshake /\ NoHistory /\ NoCodec /\ NoConsumer

Running == pc \in {"next", "resume", "got_msg"}
Stopped == pc \in {"exited", "aborted"}

(***************************************************************************)
(* The state after construction: main has parsed its options and is about  *)
(* to call connect_bot (markov.rs:55-71).                                  *)
(***************************************************************************)
Init ==
    /\ pc = "connect"
    /\ in_loop = FALSE
    /\ token = ""
    /\ session_id = ""
    /\ last_seq = 0
    /\ ack = FALSE
    /\ heartbeat_interval = NoInterval
    /\ wsreader = 0
    /\ wswriter = 0
    /\ prebuf = None
    /\ user_id = ""
    /\ tick_ready = FALSE
    /\ inbox = <<>>
    /\ wire = <<>>
    /\ spawned = <<>>
    /\ ret = Pending
    /\ channel_chains = [c \in Channels |-> None]
    /\ guild_chains = [g \in Guilds |-> None]
    /\ encountered_channels = {}
    /\ whole_guild_logs \in BOOLEAN
    /\ hb_unacked = FALSE
    /\ steps = <<>>
    /\ seen_seq = 0
    /\ resumed = FALSE
    /\ ack_arrived = FALSE
    /\ NoOther

\* A connect_bot whose result main assigns to `discord` or returns with `?`.
\* The new Interval's first tick is due at once; the new connection has
\* nothing to read yet.
Connected(r, i) ==
    /\ wire' = r.wire
    /\ spawned' = <<>>
    /\ steps' = connect_bot_steps(i)
    /\ IF r.status = "Ok"
       THEN /\ Install(r.discord)
            /\ pc' = "next"
            /\ in_loop' = TRUE
            /\ ret' = Pending
            /\ tick_ready' = TRUE
            /\ inbox' = <<>>
            /\ hb_unacked' = FALSE
            /\ seen_seq' = IF \E r2 \in i.second.ready : r2.s # None
                           THEN CHOOSE n \in Seqs : \E r2 \in i.second.ready : r2.s = Some(n)
                           ELSE 0
            /\ resumed' = FALSE
            /\ ack_arrived' = FALSE
       ELSE /\ pc' = IF r.status = "Panic" THEN "aborted" ELSE "exited"
            /\ ret' = Ret(r.status, r.err, None)
            /\ UNCHANGED <<discord_vars, in_loop, tick_ready, inbox, hb_unacked,
                           seen_seq, resumed, ack_arrived>>
    /\ UNCHANGED <<caller_vars, fixed_vars>>

\* markov.rs:59
Start ==
    /\ pc = "connect"
    /\ \E c \in Conns \ {wsreader}, i \in ConnInputs :
          Connected(connect_bot(BotToken, c, i), i)

\* The Err arm giving up.
err_arm_gives_up(e) == "exit"

\* What the Err arm does with the error of next(): "reconnect" is a fresh connect_bot.
err_arm(e) == "reconnect"

\* markov.rs:157-163, the Err arm of the loop
ErrArm ==
    /\ pc = "err"
    /\ IF err_arm(ret.err) = "reconnect"
       THEN \E c \in Conns \ {wsreader}, i \in ConnInputs :
               Connected(connect_bot(BotToken, c, i), i)
       ELSE /\ pc' = "exited"
            /\ wire' = <<>>
            /\ spawned' = <<>>
            /\ steps' = <<>>
            /\ UNCHANGED <<discord_vars, in_loop, tick_ready, inbox, hb_unacked,
                           seen_seq, resumed, ack_arrived, ret, caller_vars,
                           fixed_vars>>

\* The frame is a decodable payload with op 11 (heartbeat ack)
IsAckPayload(f) == f.kind = "Text" /\ f.payload.json /\ f.payload.op = 11

\* The interval arm of the select (discord.rs:401-415)
Tick ==
    /\ pc = "next"
    /\ select_biased(tick_ready, inbox # <<>>) = "interval"
    /\ tick_ready' = FALSE
    /\ hb_unacked' = TRUE
    /\ resumed' = FALSE
    /\ ack_arrived' = IF ack THEN FALSE ELSE ack_arrived
    /\ steps' = <<>>
    /\ spawned' = <<>>
    /\ IF ack
       THEN \E write_ok \in BOOLEAN :
              /\ ack' = ack_after_take(ack)
              /\ IF write_ok
                 THEN /\ wire' = <<heartbeat_payload(wswriter, last_seq)>>
                      /\ UNCHANGED <<pc, ret>>
                 ELSE /\ wire' = <<>>
                      /\ pc' = "err"
                      /\ ret' = Ret("Err", "TokioIo", None)
       ELSE /\ ack' = ack_after_take(ack)
            /\ wire' = <<>>
            /\ pc' = "err"
            /\ ret' = Ret("Err", "NoAck", None)
    /\ UNCHANGED <<in_loop, token, session_id, last_seq, heartbeat_interval, wsreader,
                   wswriter, prebuf, user_id, inbox, caller_vars, fixed_vars, seen_seq>>

\* The message arm of the select and what follows it (discord.rs:416-453)
Frame ==
    /\ pc = "next"
    /\ select_biased(tick_ready, inbox # <<>>) = "message"
    /\ LET o == on_message(Head(inbox), last_seq, ack, user_id)
       IN /\ inbox' = Tail(inbox)
          /\ ack_arrived' = FALSE
          /\ last_seq' = o.last_seq
          /\ ack' = o.ack
          /\ hb_unacked' = IF IsAckPayload(Head(inbox)) THEN FALSE ELSE hb_unacked
          /\ seen_seq' = IF Head(inbox).kind = "Text" /\ Head(inbox).payload.json
                            /\ Head(inbox).payload.s # None
                         THEN CHOOSE n \in Seqs : Head(inbox).payload.s = Some(n)
                         ELSE seen_seq
          /\ pc' = CASE o.out = "msg" -> "got_msg"
                     [] o.out = "none" -> "next"
                     [] o.out = "reconnect" -> "resume"
                     [] OTHER -> "err"
          /\ ret' = CASE o.out = "msg" -> Ret("Ok", "", o.msg)
                      [] o.out = "err" -> Ret("Err", o.err, o.msg)
                      [] OTHER -> Pending
    /\ wire' = <<>>
    /\ spawned' = <<>>
    /\ steps' = <<>>
    /\ UNCHANGED <<in_loop, token, session_id, heartbeat_interval, wsreader, wswriter,
                   prebuf, user_id, tick_ready, caller_vars, fixed_vars, resumed>>

\* if reconnect { self.reconnect().await?; } (discord.rs:451-453)
Reconnect ==
    /\ pc = "resume"
    /\ \E c \in Conns \ {wsreader}, i \in ReconnInputs :
          LET r == reconnect(Self, c, i)
          IN /\ Install(r.discord)
             /\ wire' = r.wire
             /\ tick_ready' = IF r.discord.heartbeat_interval # heartbeat_interval
                              THEN TRUE ELSE tick_ready
             /\ inbox' = IF r.discord.wsreader # wsreader THEN <<>> ELSE inbox
             /\ ack_arrived' = IF r.discord.wsreader # wsreader THEN FALSE ELSE ack_arrived
             /\ pc' = CASE r.status = "Ok" -> "next"
                        [] r.status = "Err" -> "err"
                        [] OTHER -> "aborted"
             /\ ret' = IF r.status = "Ok" THEN Pending ELSE Ret(r.status, r.err, None)
             /\ steps' = reconnect_steps(i)
             /\ resumed' = IF r.status = "Ok" THEN TRUE ELSE resumed
    /\ spawned' = <<>>
    /\ UNCHANGED <<in_loop, caller_vars, fixed_vars, hb_unacked, seen_seq>>

\* Chain::feed on the chain held under key k
feed(chains, k, content) ==
    [chains EXCEPT ![k] = Some(Append(UnwrapOr(chains[k], <<>>), content))]

\* entry(k).or_insert_with(|| Chain::new(..))
or_insert(chains, k) ==
    [chains EXCEPT ![k] = Some(UnwrapOr(chains[k], <<>>))]

\* The body of the Ok arm (markov.rs:104-155) on the message msg: the
\* collections as it leaves them and the tasks it spawns, each with the
\* guild id it is given.
ok_arm(msg, wgl, enc, gch, cch) ==
    LET by_guild == msg.guild_id # None /\ wgl
        g == UnwrapOr(msg.guild_id, "g1")
        ch == msg.channel_id
        fresh == IF by_guild THEN ch \notin enc ELSE cch[ch] = None
        fed == IF by_guild THEN UnwrapOr(gch[g], <<>>) ELSE UnwrapOr(cch[ch], <<>>)
        speaks == ~msg.is_me /\ msg.content # ""
        feeds == speaks /\ ~msg.mentioned
        sends == speaks /\ msg.mentioned /\ fed # <<>>
        gid == IF by_guild THEN msg.guild_id ELSE None
    IN [encountered_channels |-> IF by_guild THEN enc \cup {ch} ELSE enc,
        guild_chains |-> IF ~by_guild THEN gch
                         ELSE IF feeds THEN feed(gch, g, msg.content)
                         ELSE or_insert(gch, g),
        channel_chains |-> IF by_guild THEN cch
                           ELSE IF feeds THEN feed(cch, ch, msg.content)
                           ELSE or_insert(cch, ch),
        spawned |-> (IF fresh
                     THEN <<[call |-> "channel_messages", channel |-> ch, gid |-> gid]>>
                     ELSE <<>>)
                    \o (IF sends
                        THEN <<[call |-> "send_message", channel |-> ch, gid |-> None]>>
                        ELSE <<>>)]

\* The body of the backlog arm (markov.rs:86-95): the chains as it leaves them
backlog_arm(backlog, wgl, gch, cch) ==
    LET by_guild == backlog.guild_id # None /\ wgl
        g == UnwrapOr(backlog.guild_id, "g1")
        ch == backlog.msg.channel_id
        feeds == ~backlog.msg.is_me /\ backlog.msg.content # "" /\ ~backlog.msg.mentioned
    IN [guild_chains |-> IF ~by_guild THEN gch
                         ELSE IF feeds THEN feed(gch, g, backlog.msg.content)
                         ELSE or_insert(gch, g),
        channel_chains |-> IF by_guild THEN cch
                           ELSE IF feeds THEN feed(cch, ch, backlog.msg.content)
                           ELSE or_insert(cch, ch)]

\* markov.rs:103-156, the Ok arm of the loop
OkArm ==
    /\ pc = "got_msg"
    /\ \E msg \in ret.msg :
         LET r == ok_arm(msg, whole_guild_logs, encountered_channels, guild_chains,
                         channel_chains)
         IN /\ encountered_channels' = r.encountered_channels
            /\ guild_chains' = r.guild_chains
            /\ channel_chains' = r.channel_chains
            /\ spawned' = r.spawned
    /\ pc' = "next"
    /\ ret' = Pending
    /\ wire' = <<>>
    /\ steps' = <<>>
    /\ UNCHANGED <<discord_vars, in_loop, tick_ready, inbox, fixed_vars,
                   hb_unacked, seen_seq, resumed, ack_arrived>>

(***************************************************************************)
(* The environment: the heartbeat timer and the peer.                      *)
(***************************************************************************)
TotalFed ==
    LET n(o) == Len(UnwrapOr(o, <<>>))
    IN n(channel_chains["c1"]) + n(guild_chains["g1"])

Feedable(f) == f.kind = "Text" /\ f.payload.d # None

TimerFire ==
    /\ Running
    /\ ~tick_ready
    /\ tick_ready' = TRUE
    /\ wire' = <<>>
    /\ spawned' = <<>>
    /\ steps' = <<>>
    /\ UNCHANGED <<pc, in_loop, discord_vars, inbox, ret, caller_vars,
                   fixed_vars, hb_unacked, seen_seq, resumed, ack_arrived>>

\* The peer's next message becomes readable.  The reader holds at most one
\* complete message at a time; the following one arrives after it is read.
DeliverFrom(S) ==
    /\ Running
    /\ inbox = <<>>
    /\ \E f \in S :
          /\ Feedable(f) => TotalFed + (IF pc = "got_msg" THEN 1 ELSE 0) < MaxFeeds
          /\ inbox' = <<f>>
          /\ ack_arrived' = (IsAckPayload(f) /\ hb_unacked)
    /\ wire' = <<>>
    /\ spawned' = <<>>
    /\ steps' = <<>>
    /\ UNCHANGED <<pc, in_loop, discord_vars, tick_ready, ret, caller_vars,
                   fixed_vars, hb_unacked, seen_seq, resumed>>

Deliver == DeliverFrom(Frames)

\* A peer that sends payloads without sequence numbers and asks for resumes, and
\* never fails the transport.
LiveFrames ==
    {TextFrame(p) : p \in {q \in TextPayloads : q.json /\ q.s = None}}
    \cup {CloseFrame(<<3, 233>>)}

DeliverLive == DeliverFrom(LiveFrames)

Program == Start \/ ErrArm \/ Tick \/ Frame \/ Reconnect \/ OkArm

Next ==
    \/ Start
    \/ ErrArm
    \/ Tick
    \/ Frame
    \/ Reconnect
    \/ OkArm
    \/ TimerFire
    \/ Deliver

Spec == Init /\ [][Next]_vars

LiveNext ==
    \/ Start
    \/ ErrArm
    \/ Tick
    \/ Frame
    \/ Reconnect
    \/ OkArm
    \/ TimerFire
    \/ DeliverLive

\* The executor keeps polling main while it can make a step.
LiveSpec == Init /\ [][LiveNext]_vars /\ WF_vars(Program)

(***************************************************************************)
(* Steps of next() as seen from outside.                                   *)
(***************************************************************************)
\* The interval arm ran: only it clears the elapsed Delay.
TickStep == pc = "next" /\ tick_ready /\ ~tick_ready'
\* The message arm ran: only it consumes from the connection inside next().
FrameStep == pc = "next" /\ inbox # <<>> /\ Len(inbox') < Len(inbox)
NoAckErr == Ret("Err", "NoAck", None)

(***************************************************************************)
(* C1: if two heartbeat ticks are handled with no op-11 payload processed  *)
(* between them, the second tick makes next() return NoAck and writes no   *)
(* heartbeat.                                                              *)
(***************************************************************************)
C1_SecondTickNoAck ==
    [][(TickStep /\ hb_unacked) => (pc' = "err" /\ ret' = NoAckErr /\ wire' = <<>>)]_vars

C1_Witness == pc = "err" /\ ret = NoAckErr /\ hb_unacked /\ ~ack

(***************************************************************************)
(* C2: a close frame with code 1001 and no reason, read in next(), leads   *)
(* to reconnect() (no error returned; the connection it yields is opened   *)
(* by an op-6 resume, not an identify); a close frame with code 1000 makes *)
(* next() return an error, and the connection that follows is opened by an *)
(* op-2 identify.                                                          *)
(***************************************************************************)
C2_CloseCodes ==
    [][/\ (FrameStep /\ Head(inbox) = CloseFrame(<<3, 233>>))
            => (pc' = "resume" /\ ret' = Pending)
       /\ (FrameStep /\ Head(inbox) = CloseFrame(<<3, 232>>))
            => (pc' = "err"
                /\ ret' = Ret("Err", "UnexpectedWebsocketResponse", Some(Head(inbox))))
       /\ (pc = "resume" /\ pc' = "next")
            => (Len(wire') = 1 /\ wire'[1].op = 6 /\ ret' = Pending)
       /\ (pc = "err" /\ pc' = "next")
            => (Len(wire') = 1 /\ wire'[1].op = 2)]_vars

C2_Witness == pc = "next" /\ Len(wire) = 1 /\ wire[1].op = 6 /\ ret = Pending

(***************************************************************************)
(* C3: when the heartbeat tick and an inbound frame are both ready at a    *)
(* poll of next(), the frame is not consumed: the step next() takes is the *)
(* tick (a heartbeat written, or an error returned, with the frame still   *)
(* unread).                                                                *)
(***************************************************************************)
C3_TickFirst ==
    [][(pc = "next" /\ tick_ready /\ inbox # <<>>)
          => /\ ~FrameStep
             /\ TickStep => /\ inbox' = inbox
                            /\ \/ (Len(wire') = 1 /\ wire'[1].op = 1)
                               \/ (pc' = "err" /\ ret'.tag = "Err")]_vars

C3_Witness ==
    pc = "next" /\ inbox # <<>> /\ ~tick_ready /\ Len(wire) = 1 /\ wire[1].op = 1

(***************************************************************************)
(* C4: while main keeps running, a heartbeat tick that is due is           *)
(* eventually handled (or the session has ended with an error), whatever   *)
(* frames keep arriving.                                                   *)
(***************************************************************************)
C4_TickEventuallyHandled ==
    (tick_ready /\ Running) ~> (~tick_ready \/ pc \in {"err", "exited", "aborted"})

C4_Witness == pc = "err" /\ ret = NoAckErr /\ inbox # <<>> /\ ~tick_ready

(***************************************************************************)
(* C5: a successful reconnect() writes exactly one payload, an op-6 resume *)
(* with the session's token, session_id and last_seq, on the new           *)
(* connection; reconnect(), successful or not, leaves session_id,          *)
(* last_seq, user_id and token unchanged.                                  *)
(***************************************************************************)
C5_ResumePayload ==
    [][/\ (pc = "resume" /\ pc' = "next")
            => wire' = <<[conn |-> wswriter', op |-> 6, token |-> token,
                          session_id |-> session_id, seq |-> last_seq]>>
       /\ (pc = "resume")
            => (session_id' = session_id /\ last_seq' = last_seq
                /\ user_id' = user_id /\ token' = token /\ token = BotToken)]_vars

C5_Witness ==
    /\ pc = "next"
    /\ wire = <<[conn |-> wswriter, op |-> 6, token |-> BotToken,
                 session_id |-> session_id, seq |-> last_seq]>>
    /\ last_seq > 0

(***************************************************************************)
(* C6: every error returned by next() takes main to the Err arm, whose     *)
(* only step is a fresh connect_bot: when it succeeds an op-2 identify was *)
(* written on the new connection and session_id, last_seq and user_id are  *)
(* those of the new ready payload (last_seq 0 when it has no s); the       *)
(* chains and the encountered channels are unchanged.                      *)
(***************************************************************************)
C6_FreshReconnect ==
    [][/\ (pc \in {"next", "resume"} /\ ret'.tag = "Err") => pc' = "err"
       /\ (pc = "err")
            => /\ UNCHANGED <<channel_chains, guild_chains, encountered_channels>>
               /\ pc' \in {"err", "next", "exited", "aborted"}
               /\ \A k \in 1 .. Len(wire') : wire'[k].op = 2
       /\ (pc = "err" /\ pc' = "next")
            => /\ wire' = <<[conn |-> wswriter', op |-> 2, token |-> BotToken,
                             session_id |-> "", seq |-> 0]>>
               /\ wswriter' # wswriter
               /\ wsreader' = wswriter'
               /\ \E r \in Readys :
                     /\ session_id' = r.session_id
                     /\ user_id' = r.user
                     /\ last_seq' = (IF r.s = {} THEN 0 ELSE CHOOSE n \in r.s : TRUE)]_vars

C6_Witness ==
    /\ pc = "next"
    /\ Len(wire) = 1 /\ wire[1].op = 2
    /\ channel_chains["c1"] = Some(<<"a">>)

(***************************************************************************)
(* C7, as stated: once in the loop, main never stops.                      *)
(***************************************************************************)
C7_LoopNeverStops == in_loop => ~Stopped

(***************************************************************************)
(* C7, amended: whatever the number of errors next() has returned so far,  *)
(* the Err arm attempts a fresh connect_bot and the loop continues when    *)
(* that succeeds; the loop stops only inside a connection attempt: when    *)
(* the connect_bot of the Err arm fails (main returns its error or a       *)
(* non-Text handshake frame aborts it), or when a non-Text hello aborts    *)
(* reconnect().                                                            *)
(***************************************************************************)
C7_StopsOnlyWhenConnectFails ==
    /\ [](pc = "err" => ENABLED (ErrArm /\ pc' = "next"))
    /\ [][(in_loop /\ ~Stopped /\ Stopped')
            => \/ (pc = "err" /\ ret'.tag \in {"Err", "Panic"})
               \/ (pc = "resume" /\ ret'.tag = "Panic")]_vars

C7_Witness ==
    /\ pc = "next" /\ in_loop
    /\ wire = <<Identify(wswriter, BotToken)>>
    /\ encountered_channels # {}

(***************************************************************************)
(* C8, as stated: inside next(), last_seq never gets smaller.              *)
(***************************************************************************)
C8_SeqMonotonic == [][pc = "next" => last_seq' >= last_seq]_vars

(***************************************************************************)
(* C8, amended: processing a decodable payload that carries a sequence     *)
(* number s sets last_seq to s, smaller than before or not; a payload      *)
(* without one, an undecodable or non-text frame, and every other step of  *)
(* the session leave last_seq unchanged.                                   *)
(***************************************************************************)
C8_SeqIsLastReceived ==
    [][/\ FrameStep
            => LET f == Head(inbox)
               IN last_seq' = IF f.kind = "Text" /\ f.payload.json /\ f.payload.s # {}
                              THEN CHOOSE n \in f.payload.s : TRUE
                              ELSE last_seq
       /\ (Running /\ ~FrameStep) => last_seq' = last_seq]_vars

C8_Witness == pc = "next" /\ session_id = "s2" /\ last_seq < MaxSeq

C10_WholesaleSwap ==
    [][/\ (pc = "resume" /\ pc' = "err")
            => UNCHANGED <<heartbeat_interval, wsreader, wswriter, prebuf>>
       /\ (pc = "resume" /\ pc' = "next")
            => /\ wsreader' # wsreader
               /\ wswriter' = wsreader'
               /\ heartbeat_interval'.conn = wsreader']_vars

(***************************************************************************)
(* C11: the bytes read past the upgrade response header are consumed by    *)
(* the frame codec before any byte of the stream: once connect_bot or      *)
(* reconnect has parsed the hello of a connection and next() reads its     *)
(* frames, no prebuffered byte of that connection is left unconsumed.      *)
(***************************************************************************)
C11_PrebufferDrained == Running => prebuf = None

(***************************************************************************)
(* The other components run on their own: main's gateway loop is not       *)
(* started.                                                                *)
(***************************************************************************)
NoGateway ==
    /\ pc = "none"
    /\ in_loop = FALSE
    /\ token = ""
    /\ session_id = ""
    /\ last_seq = 0
    /\ ack = FALSE
    /\ heartbeat_interval = NoInterval
    /\ wsreader = 0
    /\ wswriter = 0
    /\ prebuf = None
    /\ user_id = ""
    /\ tick_ready = FALSE
    /\ inbox = <<>>
    /\ wire = <<>>
    /\ spawned = <<>>
    /\ ret = Pending
    /\ channel_chains = [c \in Channels |-> None]
    /\ guild_chains = [g \in Guilds |-> None]
    /\ encountered_channels = {}
    /\ whole_guild_logs = FALSE
    /\ hb_unacked = FALSE
    /\ steps = <<>>
    /\ seen_seq = 0
    /\ resumed = FALSE
    /\ ack_arrived = FALSE

(***************************************************************************)
(* connect_gateway on the responses a server can give to the upgrade       *)
(* request.                                                                *)
(***************************************************************************)
Statuses == {SWITCHING_PROTOCOLS, 200}
UpgradeValues ==
    {None,
     Some(<<"w","e","b","s","o","c","k","e","t">>),
     Some(<<"W","e","b","S","o","c","k","e","t">>),
     Some(<<"w","e","b","s","o","c","k","e","t","s">>),
     Some(<<"w","e","b","\\xe9">>)}
ConnectionValues ==
    {None,
     Some(<<"u","p","g","r","a","d","e">>),
     Some(<<"U","p","g","r","a","d","e">>),
     Some(<<"c","l","o","s","e">>),
     Some(<<"u","p","\\xe9">>)}
AcceptValues(nonce) ==
    LET key == ResponseKey_from(nonce)
    IN {None,
        Some(key),
        Some(<<" ">> \o key \o <<" ">>),
        Some(UniCase(key)),
        Some(key \o <<"=">>),
        Some(<<"\\xe9">>)}
        \cup {Some(ResponseKey_from(n)) : n \in RequestKeys}
Responses(nonce) ==
    {Response(s, u, c, a) : s \in Statuses, u \in UpgradeValues,
                            c \in ConnectionValues, a \in AcceptValues(nonce)}

\* The Uris hyper hands to the connector: absolute ones, and a bare authority.
Uris ==
    {u \in [scheme : {None, Some("https"), Some("wss"), Some("http")},
            host : {None, Some("gateway.discord.gg")},
            port : {None, Some(HTTPS_PORT), Some(8080)},
            path_and_query : {None, Some("/"), Some("/?v=6")}] :
        /\ build(u).status = "Ok"
        /\ u.host = None => u.port = None
        /\ u # NoUriParts}

\* The derived key with its character at position i replaced by c.
Changed(key, i, c) == [key EXCEPT ![i] = c]
\* The values a server may send for the key: the derived key, and every key
\* that differs from it in one character.
KeyCandidates(key) ==
    {key} \cup UNION {{Changed(key, i, c) : c \in {"A", "=", " "} \ {key[i]}} : i \in 1..Len(key)}

HandshakeInit ==
    /\ NoGateway
    /\ NoConsumer
    /\ NoHistory
    /\ NoCodec
    /\ hs_out = NoGatewayResult
    /\ key_req = NoKey
    /\ key_resp = <<>>
    /\ key_ok = None
    /\ tls_out = NoTlsResult
    /\ \/ /\ hs_pc = "gateway"
          /\ hs_nonce \in RequestKeys
          /\ hs_res \in Responses(hs_nonce)
          /\ key_bytes = <<>>
          /\ dst = NoUriParts
       \/ /\ hs_pc = "generate"
          /\ hs_nonce = <<>>
          /\ hs_res = NoResponse
          /\ key_bytes \in RandomBytes
          /\ dst = NoUriParts
       \/ /\ hs_pc = "call"
          /\ hs_nonce = <<>>
          /\ hs_res = NoResponse
          /\ key_bytes = <<>>
          /\ dst \in Uris

\* discord.rs:514-515
ConnectGateway ==
    /\ hs_pc = "gateway"
    /\ hs_out = NoGatewayResult
    /\ \E upgrade_ok \in BOOLEAN : hs_out' = connect_gateway(hs_nonce, hs_res, upgrade_ok)
    /\ UNCHANGED <<gateway_vars, consumer_vars, hs_nonce, hs_res, hs_pc, key_bytes, key_req, key_resp,
                   key_ok, dst, tls_out, history_vars, codec_vars>>

\* ws.rs:41-51
Generate ==
    /\ hs_pc = "generate"
    /\ LET r == RequestKey_generate(key_bytes)
       IN /\ key_req' = r.key
          /\ hs_pc' = IF r.status = "Ok" THEN "verify" ELSE "aborted"
    /\ UNCHANGED <<gateway_vars, consumer_vars, hs_nonce, hs_res, hs_out, key_bytes, key_resp, key_ok,
                   dst, tls_out, history_vars, codec_vars>>

\* discord.rs:538-543: the header value parsed and verified against the nonce
Verify ==
    /\ hs_pc = "verify"
    /\ \E resp \in KeyCandidates(ResponseKey_from(as_ref(key_req))) :
          /\ key_resp' = resp
          /\ key_ok' = {verify(as_ref(key_req), v) : v \in ResponseKey_from_str(resp)}
    /\ hs_pc' = "done"
    /\ UNCHANGED <<gateway_vars, consumer_vars, hs_nonce, hs_res, hs_out, key_bytes, key_req,
                   dst, tls_out, history_vars, codec_vars>>

\* tls.rs:114-150
Call ==
    /\ hs_pc = "call"
    /\ tls_out' = call(dst)
    /\ hs_pc' = "done"
    /\ UNCHANGED <<gateway_vars, consumer_vars, hs_nonce, hs_res, hs_out, key_bytes, key_req, key_resp,
                   key_ok, dst, history_vars, codec_vars>>

HandshakeNext == ConnectGateway \/ Generate \/ Verify \/ Call

HandshakeSpec == HandshakeInit /\ [][HandshakeNext]_vars

\* Two characters that differ at most in case.
SameLetter(a, b) == a = b \/ \E i \in 1..Len(Uppers) : {a, b} = {Uppers[i], Lowers[i]}
\* The header is present and is the word, whatever the case of its letters.
HeaderIs(h, word) ==
    /\ h # None
    /\ \A v \in h : /\ Len(v) = Len(word)
                    /\ \A i \in 1..Len(v) : SameLetter(v[i], word[i])
\* The header is present and its field value, the whitespace around it not
\* counted, is the key.
HeaderIsKey(h, key) ==
    /\ h # None
    /\ \A v \in h :
          \E i \in 1..Len(v) :
             /\ i + Len(key) - 1 <= Len(v)
             /\ SubSeq(v, i, i + Len(key) - 1) = key
             /\ \A j \in 1..Len(v) : (j < i \/ j >= i + Len(key)) => v[j] \in Whitespace
C12_AllFourPass ==
    /\ hs_res.status = 101
    /\ HeaderIs(hs_res.upgrade, <<"w","e","b","s","o","c","k","e","t">>)
    /\ HeaderIs(hs_res.connection, <<"u","p","g","r","a","d","e">>)
    /\ HeaderIsKey(hs_res.accept, ResponseKey_from(hs_nonce))

(***************************************************************************)
(* C12: the upgrade response is accepted only if the status is 101, the    *)
(* Upgrade header is "websocket" and the Connection header "upgrade"       *)
(* whatever the case, and Sec-WebSocket-Accept is present and is the key   *)
(* derived from the nonce; otherwise connect_gateway returns the           *)
(* Handshake error carrying the response and does not upgrade.  A          *)
(* response that passes is not refused by the verification.                *)
(***************************************************************************)
C12_AcceptedOnlyIfAllFour ==
    hs_out # NoGatewayResult =>
        IF C12_AllFourPass
        THEN hs_out.err # "Handshake"
        ELSE hs_out = GatewayResult("Err", "Handshake", hs_res, FALSE)
\* The accept key alone is wrong: it is the key of another nonce.
C12_Witness ==
    /\ hs_out = GatewayResult("Err", "Handshake", hs_res, FALSE)
    /\ hs_res.status = 101
    /\ HeaderIs(hs_res.upgrade, <<"w","e","b","s","o","c","k","e","t">>)
    /\ HeaderIs(hs_res.connection, <<"u","p","g","r","a","d","e">>)
    /\ hs_res.accept \in {Some(ResponseKey_from(n)) : n \in RequestKeys \ {hs_nonce}}

(***************************************************************************)
(* ChannelMessages::next called again and again on one reader, against a   *)
(* server that answers each request with the page the channel holds, with  *)
(* a shorter one, with bytes that do not decode, or with a failure.        *)
(***************************************************************************)
MaxFailures == 1
TimeStep == 5
\* The calls of next() that return Ok(None) before the caller stops calling.
MaxEnds == 2
Totals == {0, 99, 100, 201}
Budgets == {None, Some(0), Some(1), Some(100), Some(150), Some(250)}

\* The ids a caller gives as before_msg: none, or one in the middle of the
\* longest channel.
InitialCursors == {None, Some(150)}

\* Discord::channel_messages (discord.rs:483-494)
HistoryInit ==
    /\ NoGateway
    /\ NoConsumer
    /\ NoHandshake
    /\ NoCodec
    /\ cm_pc = "idle"
    /\ next_res = None
    /\ before_msg \in InitialCursors
    /\ next_msg_id = before_msg
    /\ budget \in Budgets
    /\ limit = budget
    /\ rate_limiter = None
    /\ page_limit = 0
    /\ delay = None
    /\ uri = NoUri
    /\ cm_ret = CmPending
    /\ srv_total \in Totals
    /\ srv_failures = 0
    /\ yielded = <<>>
    /\ requested = <<>>
    /\ since_ok = None
    /\ honest = TRUE
    /\ short_seen = FALSE
    /\ ends = 0

\* The body of `loop` (discord.rs:137-185) from its head, with next_res = res,
\* limit = lim and rate_limiter = rl, up to its return or its first await.
LoopFrom(res, lim, rl) ==
    IF res # None /\ res # Some(<<>>)
    THEN \* lines 139-144
         LET vec == CHOOSE v \in res : TRUE
         IN /\ next_res' = Some(Tail(vec))
            /\ next_msg_id' = Some(Head(vec))
            /\ cm_ret' = CmRet("Item", Head(vec), "")
            /\ yielded' = Append(yielded, Head(vec))
            /\ limit' = lim
            /\ rate_limiter' = rl
            /\ cm_pc' = "idle"
            /\ UNCHANGED <<page_limit, delay, ends>>
    ELSE IF lim = Some(0)
    THEN \* lines 145-147, then 151
         /\ next_res' = None
         /\ cm_ret' = CmRet("End", 0, "")
         /\ limit' = lim
         /\ rate_limiter' = rl
         /\ cm_pc' = "idle"
         /\ ends' = ends + 1
         /\ UNCHANGED <<next_msg_id, yielded, page_limit, delay>>
    ELSE \* lines 145-147, then 152-161
         /\ next_res' = None
         /\ page_limit' = IF lim = None THEN PAGE ELSE page_size(CHOOSE n \in lim : TRUE)
         /\ limit' = IF lim = None THEN None
                     ELSE Some(saturating_sub(CHOOSE n \in lim : TRUE, PAGE))
         /\ delay' = rl
         /\ rate_limiter' = None
         /\ cm_ret' = CmPending
         /\ cm_pc' = "delay"
         /\ UNCHANGED <<next_msg_id, yielded, ends>>

\* next() is called: discord.rs:136-161
CMCall ==
    /\ cm_pc = "idle"
    /\ ends < MaxEnds
    /\ LoopFrom(next_res, limit, rate_limiter)
    /\ UNCHANGED <<uri, srv_total, srv_failures, budget, before_msg, requested, since_ok, honest,
                   short_seen, gateway_vars, consumer_vars, handshake_vars, codec_vars>>

\* The Delay has run out: the request is issued (discord.rs:161-172)
CMSend ==
    /\ cm_pc = "delay"
    /\ delay_elapsed(delay)
    /\ delay' = None
    /\ uri' = Uri(page_limit, next_msg_id)
    /\ next_msg_id' = None
    /\ requested' = Append(requested, page_limit)
    /\ cm_pc' = "request"
    /\ UNCHANGED <<next_res, limit, rate_limiter, page_limit, cm_ret, srv_total,
                   srv_failures, budget, before_msg, ends, yielded, since_ok, honest, short_seen,
                   gateway_vars, consumer_vars, handshake_vars, codec_vars>>

\* The request fails, or its status is not a success (discord.rs:172)
CMFail ==
    /\ cm_pc = "request"
    /\ srv_failures < MaxFailures
    /\ srv_failures' = srv_failures + 1
    /\ \E e \in {"Hyper", "BadApiRequest"} : cm_ret' = CmRet("Err", 0, e)
    /\ honest' = FALSE
    /\ cm_pc' = "idle"
    /\ uri' = NoUri
    /\ page_limit' = 0
    /\ UNCHANGED <<next_res, next_msg_id, limit, rate_limiter, delay, srv_total, budget, before_msg, ends,
                   yielded, requested, since_ok, short_seen, gateway_vars, consumer_vars, handshake_vars, codec_vars>>

\* The response arrives and does not decode (discord.rs:172-175)
CMGarbage ==
    /\ cm_pc = "request"
    /\ srv_failures < MaxFailures
    /\ srv_failures' = srv_failures + 1
    /\ rate_limiter' = Some(RATE_LIMIT_SECS)
    /\ since_ok' = Some(0)
    /\ cm_ret' = CmRet("Err", 0, "Serde")
    /\ honest' = FALSE
    /\ cm_pc' = "idle"
    /\ uri' = NoUri
    /\ page_limit' = 0
    /\ UNCHANGED <<next_res, next_msg_id, limit, delay, srv_total, budget, before_msg, ends, yielded,
                   requested, short_seen, gateway_vars, consumer_vars, handshake_vars, codec_vars>>

\* The response arrives with the items `items` (discord.rs:172-182), and the
\* loop goes round again (139-151).
CMPage(items) ==
    /\ cm_pc = "request"
    /\ since_ok' = Some(0)
    /\ short_seen' = (short_seen \/ Len(items) < uri.limit)
    /\ uri' = NoUri
    /\ LoopFrom(Some(items),
                IF is_short_page(Len(items), page_limit) THEN Some(0) ELSE limit,
                Some(RATE_LIMIT_SECS))
    /\ UNCHANGED <<srv_total, srv_failures, budget, before_msg, requested, gateway_vars, consumer_vars, handshake_vars, codec_vars>>

\* The server answers with the page the channel holds.
CMRespond ==
    /\ cm_pc = "request"
    /\ CMPage(ServerPage(srv_total, uri.before, uri.limit))
    /\ UNCHANGED honest

\* The server answers with less than the channel holds.
CMRespondShort ==
    /\ cm_pc = "request"
    /\ LET page == ServerPage(srv_total, uri.before, uri.limit)
       IN /\ page # <<>>
          /\ \E k \in {0, Len(page) - 1} : CMPage(SubSeq(page, 1, k))
    /\ honest' = FALSE

\* Time passes.
Elapse ==
    /\ cm_pc # "none"
    /\ \/ rate_limiter \notin {None, Some(0)}
       \/ delay \notin {None, Some(0)}
       \/ since_ok \notin {None, Some(RATE_LIMIT_SECS)}
    /\ rate_limiter' = {saturating_sub(r, TimeStep) : r \in rate_limiter}
    /\ delay' = {saturating_sub(r, TimeStep) : r \in delay}
    /\ since_ok' = {Min(s + TimeStep, RATE_LIMIT_SECS) : s \in since_ok}
    /\ UNCHANGED <<cm_pc, next_res, next_msg_id, limit, page_limit, uri, cm_ret, srv_total,
                   srv_failures, budget, before_msg, ends, yielded, requested, honest, short_seen,
                   gateway_vars, consumer_vars, handshake_vars, codec_vars>>

HistoryNext ==
    \/ CMCall
    \/ CMSend
    \/ CMFail
    \/ CMGarbage
    \/ CMRespond
    \/ CMRespondShort
    \/ Elapse

HistorySpec == HistoryInit /\ [][HistoryNext]_vars

\* The caller awaits next() and calls it again, the Delay runs out, time
\* passes and every request is answered.
HistoryLiveSpec == HistoryInit /\ [][HistoryNext]_vars /\ WF_vars(HistoryNext)

\* The newest item of the channel that lies before the cursor of the caller.
Newest ==
    IF before_msg = None THEN srv_total
    ELSE Min(srv_total, (CHOOSE b \in before_msg : TRUE) - 1)

\* A request is issued in this step.
SendStep == cm_pc = "delay" /\ cm_pc' = "request"
RECURSIVE Sum(_)
Sum(s) == IF s = <<>> THEN 0 ELSE Head(s) + Sum(Tail(s))

(***************************************************************************)
(* C13: against a server that answers every request with the page the      *)
(* channel holds (full pages, then one short page), the items yielded are  *)
(* the channel's items, each once and newest first; when next() returns    *)
(* the end of the sequence of a reader without budget, all of them have    *)
(* been yielded; and once a page has come back short no request is issued  *)
(* any more.                                                               *)
(***************************************************************************)
C13_AllPagesOnceInOrder ==
    /\ [](honest => /\ Len(yielded) <= Newest
                    /\ \A i \in 1..Len(yielded) : yielded[i] = Newest - i + 1)
    /\ [](honest /\ cm_ret.kind = "End" /\ budget = None => Len(yielded) = Newest)
    /\ [][short_seen => requested' = requested]_vars
C13_Witness ==
    /\ honest
    /\ budget = None
    /\ srv_total = 201
    /\ cm_ret.kind = "End"
    /\ short_seen
    /\ requested = <<100, 100, 100>>
    /\ Len(yielded) = 201

(***************************************************************************)
(* C14: for a reader created with the budget Some(n), each request asks    *)
(* for min(remaining, 100) items, where remaining is n less the sizes      *)
(* already asked for; the sizes asked for sum to at most n; at most n      *)
(* items are yielded; and with n = 0 no request is issued.                 *)
(***************************************************************************)
C14_BudgetBoundsRequests ==
    /\ [](\A n \in budget : /\ Sum(requested) <= n
                            /\ Len(yielded) <= n
                            /\ (n = 0 => requested = <<>>))
    /\ [][\A n \in budget :
            SendStep => requested' = Append(requested, Min(n - Sum(requested), 100))]_vars
C14_Witness ==
    /\ budget = Some(150)
    /\ requested = <<100, 50>>
    /\ Len(yielded) = 150
    /\ cm_ret.kind = "End"

(***************************************************************************)
(* C15: a page request other than the first is issued only when the 10     *)
(* seconds armed at the previous successful response have elapsed.         *)
(***************************************************************************)
C15_TenSecondsBetweenRequests ==
    [][SendStep /\ since_ok # None => since_ok = Some(10)]_vars
C15_Witness ==
    /\ cm_pc = "request"
    /\ Len(requested) = 2
    /\ since_ok = Some(10)
    /\ rate_limiter = None

(***************************************************************************)
(* The codec functions applied to inputs drawn from bounded sets: a valid  *)
(* Header written and read back, Header::read on raw bytes, Owned::read on *)
(* the frames of one message as a peer writes them, and MaskingKey::apply  *)
(* applied twice.                                                          *)
(***************************************************************************)
MaxCont == 2
MaxPayload == 5
Trailers == {<<>>, <<137, 0>>}
Lens == {U64(0, 0), U64(0, 125), U64(0, 126), U64(255, 255),
         <<0, 0, 0, 0, 0, 1, 0, 0>>, <<255, 255, 255, 255, 255, 255, 255, 255>>}
MaskKeys == {<<18, 52, 86, 120>>, <<255, 0, 170, 85>>}
Extensions == {<<a, b, c>> : a \in BOOLEAN, b \in BOOLEAN, c \in BOOLEAN}

\* The invariant of Header: a control kind is final and shorter than 126.
IsValidHeader(h) ==
    is_control(h.kind) => h.is_final /\ ~gt_125(h.payload_len)
ValidHeaders ==
    {h \in [is_final : BOOLEAN, extensions : Extensions, kind : Kinds,
            payload_len : Lens,
            masking_key : {None} \cup {Some(k) : k \in MaskKeys}] : IsValidHeader(h)}

\* The first two bytes of a frame and what follows them in the reader.
RawFirsts == {fin + (16 * ext) + op : fin \in {0, 128}, ext \in 0..7, op \in 0..15}
RawSeconds == {0, 125, 126, 127, 128, 253, 254, 255}
RawTail == <<1, 2, 3, 4, 5, 6, 7, 8, 9, 10, 11, 12>>

\* The payloads of the fragments: "A", the two bytes of U+00E9 together and
\* apart, a byte that no UTF-8 text holds, and nothing.
Chunks == {<<>>, <<65>>, <<195>>, <<169>>, <<195, 169>>, <<255>>}
WireFrame(header, payload) == [header |-> header, payload |-> payload]
\* One message of the kind `kind` cut into the fragments `chunks`: the first
\* frame carries the kind, the others are Continuation, the last is final.
MessageFrames(kind, chunks, key) ==
    [i \in 1..Len(chunks) |->
        WireFrame(Header(i = Len(chunks), <<FALSE, FALSE, FALSE>>,
                     IF i = 1 THEN kind ELSE "Continuation",
                     U64(0, Len(chunks[i])), key),
              chunks[i])]
FragmentedMessages ==
    {MessageFrames(kind, chunks, key) :
        kind \in {"Text", "Binary"},
        chunks \in UNION {[1..n -> Chunks] : n \in 1..(MaxCont + 1)},
        key \in {None, Some(<<18, 52, 86, 120>>)}}

\* The bytes of one frame on the wire.
frame_bytes(f) ==
    Header_bytes(f.header)
    \o (IF f.header.masking_key = None THEN f.payload
        ELSE apply(CHOOSE k \in f.header.masking_key : TRUE, f.payload))
RECURSIVE wire_bytes(_)
wire_bytes(fs) == IF fs = <<>> THEN <<>> ELSE frame_bytes(Head(fs)) \o wire_bytes(Tail(fs))
RECURSIVE payloads(_)
payloads(fs) == IF fs = <<>> THEN <<>> ELSE Head(fs).payload \o payloads(Tail(fs))

MaskPayloads == UNION {[1..n -> {0, 90, 255}] : n \in 0..MaxPayload}

CodecInit ==
    /\ NoGateway
    /\ NoConsumer
    /\ NoHandshake
    /\ NoHistory
    /\ rd_header = NoHeaderResult
    /\ rd_owned = NoOwnedResult
    /\ mask_applied = 0
    /\ wr_msg = NoWrite
    /\ \/ /\ cx_pc = "bytes"
          /\ wr_header \in ValidHeaders
          /\ trailer \in Trailers
          /\ stream = <<>>
          /\ frames = <<>>
          /\ mask_key = <<>> /\ mask_payload = <<>> /\ mask_orig = <<>>
       \/ /\ cx_pc = "raw"
          /\ wr_header = NoHeader
          /\ trailer = RawTail
          /\ \E first \in RawFirsts, second \in RawSeconds : stream = <<first, second>> \o RawTail
          /\ frames = <<>>
          /\ mask_key = <<>> /\ mask_payload = <<>> /\ mask_orig = <<>>
       \/ /\ cx_pc = "write"
          /\ wr_header = NoHeader
          /\ trailer \in Trailers
          /\ stream = <<>>
          /\ frames \in FragmentedMessages
          /\ mask_key = <<>> /\ mask_payload = <<>> /\ mask_orig = <<>>
       \/ /\ cx_pc = "apply"
          /\ wr_header = NoHeader
          /\ trailer = <<>>
          /\ stream = <<>>
          /\ frames = <<>>
          /\ mask_key \in MaskKeys
          /\ mask_payload \in MaskPayloads
          /\ mask_orig = mask_payload

\* Header::bytes, and the bytes put in front of the trailer in the reader
HeaderBytes ==
    /\ cx_pc = "bytes"
    /\ stream' = Header_bytes(wr_header) \o trailer
    /\ cx_pc' = "read"
    /\ UNCHANGED <<wr_header, wr_msg, frames, trailer, rd_header, rd_owned, mask_key,
                   mask_payload, mask_orig, mask_applied, gateway_vars, consumer_vars,
                   handshake_vars, history_vars>>

\* Header::read
HeaderRead ==
    /\ cx_pc \in {"read", "raw"}
    /\ rd_header' = Header_read(stream)
    /\ stream' = rd_header'.rest
    /\ cx_pc' = IF cx_pc = "read" THEN "round_trip_done" ELSE "raw_done"
    /\ UNCHANGED <<wr_header, wr_msg, frames, trailer, rd_owned, mask_key, mask_payload,
                   mask_orig, mask_applied, gateway_vars, consumer_vars, handshake_vars, history_vars>>

\* The peer writes the frames of its message, and what follows them.
PeerWrite ==
    /\ cx_pc = "write"
    /\ stream' = wire_bytes(frames) \o trailer
    /\ cx_pc' = "read_owned"
    /\ UNCHANGED <<wr_header, wr_msg, frames, trailer, rd_header, rd_owned, mask_key,
                   mask_payload, mask_orig, mask_applied, gateway_vars, consumer_vars,
                   handshake_vars, history_vars>>

\* Owned::read
OwnedRead ==
    /\ cx_pc = "read_owned"
    /\ rd_owned' = Owned_read(stream)
    /\ stream' = rd_owned'.rest
    /\ cx_pc' = "owned_done"
    /\ UNCHANGED <<wr_header, wr_msg, frames, trailer, rd_header, mask_key, mask_payload,
                   mask_orig, mask_applied, gateway_vars, consumer_vars, handshake_vars, history_vars>>

\* MaskingKey::apply, in place
Apply ==
    /\ cx_pc = "apply"
    /\ mask_payload' = apply(mask_key, mask_payload)
    /\ mask_applied' = mask_applied + 1
    /\ cx_pc' = IF mask_applied' = 2 THEN "apply_done" ELSE "apply"
    /\ UNCHANGED <<wr_header, wr_msg, frames, trailer, stream, rd_header, rd_owned, mask_key,
                   mask_orig, gateway_vars, consumer_vars, handshake_vars, history_vars>>

CodecNext ==
    \/ HeaderBytes
    \/ HeaderRead
    \/ PeerWrite
    \/ OwnedRead
    \/ Apply

CodecSpec == CodecInit /\ [][CodecNext]_vars

(***************************************************************************)
(* Owned::read on frames of any kind in any order, each with its own key,  *)
(* and on the bytes Message::write emits.                                  *)
(***************************************************************************)
MaxFrames == 2
AnyKeys == {None, Some(<<18, 52, 86, 120>>), Some(<<255, 0, 170, 85>>)}
AnyPayloads == {<<>>, <<65, 66>>}
AnyFrames ==
    {WireFrame(Header(fin, <<FALSE, FALSE, FALSE>>, kind, U64(0, Len(p)), key), p) :
        fin \in BOOLEAN, kind \in Kinds, key \in AnyKeys, p \in AnyPayloads}
FrameSequences == UNION {[1..n -> AnyFrames] : n \in 1..MaxFrames}

\* n bytes
Long(n) == [i \in 1..n |-> 97]
WrittenMessages ==
    {WsMessage("Text", d, None) : d \in {<<>>, <<65>>, <<195, 169>>}}
    \cup {WsMessage(k, d, None) :
            k \in {"Binary", "Ping", "Pong"}, d \in {<<>>, <<255>>, Long(125), Long(126)}}
    \cup {WsMessage("Close", <<>>, c) :
            c \in {None, CloseOf(1000, <<>>), CloseOf(1001, <<97>>)}}
Writes ==
    {Write(m, "Server", None) : m \in WrittenMessages}
    \cup {Write(m, "Client", k) : m \in WrittenMessages, k \in AnyKeys}

FramingInit ==
    /\ NoGateway
    /\ NoConsumer
    /\ NoHandshake
    /\ NoHistory
    /\ rd_header = NoHeaderResult
    /\ rd_owned = NoOwnedResult
    /\ mask_applied = 0
    /\ wr_header = NoHeader
    /\ stream = <<>>
    /\ mask_key = <<>> /\ mask_payload = <<>> /\ mask_orig = <<>>
    /\ \/ /\ cx_pc = "write"
          /\ frames \in FrameSequences
          /\ trailer = <<137, 0>>
          /\ wr_msg = NoWrite
       \/ /\ cx_pc = "message"
          /\ frames = <<>>
          /\ trailer \in Trailers
          /\ wr_msg \in Writes

\* Message::write, and the bytes it wrote put in front of the trailer
MessageWrite ==
    /\ cx_pc = "message"
    /\ LET w == Message_write(wr_msg.msg, wr_msg.ctx, wr_msg.mask)
       IN /\ stream' = w.bytes \o trailer
          /\ cx_pc' = IF w.status = "Ok" THEN "read_owned" ELSE "write_failed"
    /\ UNCHANGED <<wr_header, wr_msg, frames, trailer, rd_header, rd_owned, mask_key,
                   mask_payload, mask_orig, mask_applied, gateway_vars, consumer_vars,
                   handshake_vars, history_vars>>

FramingNext ==
    \/ PeerWrite
    \/ MessageWrite
    \/ OwnedRead

FramingSpec == FramingInit /\ [][FramingNext]_vars

(***************************************************************************)
(* C16: a non-final Binary or Text frame followed by k >= 1 Continuation   *)
(* frames, the last one final and the others not, is read by Owned::read   *)
(* as one message of the first frame's kind whose payload is the           *)
(* fragments' payloads in order, and exactly those frames are consumed     *)
(* (a Text message is taken when the payloads together are UTF-8).         *)
(***************************************************************************)
C16_FragmentsReassembled ==
    (/\ cx_pc = "owned_done"
     /\ Len(frames) >= 2
     /\ frames[1].header.kind = "Text" => from_utf8(payloads(frames)))
    => rd_owned = OwnedResult("Ok", frames[1].header.kind, payloads(frames), trailer)

(***************************************************************************)
(* C17: for every valid header H, Header::read on the bytes of             *)
(* Header::bytes(H) returns H and consumes exactly those bytes.            *)
(***************************************************************************)
C17_HeaderRoundTrip ==
    cx_pc = "round_trip_done" => rd_header = HeaderResult("Ok", wr_header, trailer)
C17_Witness ==
    /\ cx_pc = "round_trip_done"
    /\ rd_header.status = "Ok"
    /\ wr_header.kind = "Binary"
    /\ wr_header.payload_len = U64(0, 126)
    /\ wr_header.masking_key # None
    /\ stream = <<137, 0>>

(***************************************************************************)
(* C18: a Close, Ping or Pong header whose 7-bit length is 126 or more, or *)
(* which is not final, is rejected by Header::read with InvalidLength or   *)
(* InvalidDataFrame, and no byte after the first two has been read.        *)
(***************************************************************************)
C18_ControlRejectedEarly ==
    [][(/\ cx_pc = "raw"
        /\ stream[1] % 16 \in {8, 9, 10}
        /\ stream[2] % 128 >= 126 \/ stream[1] < 128)
       => /\ rd_header'.status =
                IF stream[2] % 128 >= 126 THEN "InvalidLength" ELSE "InvalidDataFrame"
          /\ stream' = SubSeq(stream, 3, Len(stream))]_vars
C18_Witness ==
    /\ cx_pc = "raw_done"
    /\ rd_header.status = "InvalidLength"
    /\ stream = RawTail

(***************************************************************************)
(* C19: no Owned of kind Text holds bytes that are not UTF-8: a Text       *)
(* message whose payload is not UTF-8 is refused with NonUtf8Text when the *)
(* message is constructed.                                                 *)
(***************************************************************************)
C19_TextIsUtf8 ==
    /\ rd_owned.status = "Ok" /\ rd_owned.kind = "Text" => from_utf8(rd_owned.data)
    /\ (/\ cx_pc = "owned_done"
        /\ Len(frames) = 1
        /\ frames[1].header.kind = "Text"
        /\ ~from_utf8(frames[1].payload)) => rd_owned.status = "NonUtf8Text"
C19_Witness ==
    /\ cx_pc = "owned_done"
    /\ Len(frames) = 1
    /\ frames[1].payload = <<255>>
    /\ rd_owned.status = "NonUtf8Text"

(***************************************************************************)
(* C20: one application of MaskingKey::apply XORs byte i of the payload    *)
(* with K[i mod 4], and two applications with the same key give the        *)
(* payload back.                                                           *)
(***************************************************************************)
C20_MaskSelfInverse ==
    /\ mask_applied = 1 =>
          /\ Len(mask_payload) = Len(mask_orig)
          /\ \A i \in 1..Len(mask_orig) :
                mask_payload[i] = xor(mask_orig[i], mask_key[((i - 1) % 4) + 1])
    /\ mask_applied = 2 => mask_payload = mask_orig
C20_Witness ==
    /\ mask_applied = 2
    /\ Len(mask_orig) = 5
    /\ mask_orig[5] = 255
    /\ mask_payload = mask_orig

(***************************************************************************)
(* main of markov.rs from its loop on, with Discord::next taken as a       *)
(* whole: the `next` future is pending or has completed with an event or   *)
(* an error.  The fetch tasks and the send tasks run beside main.          *)
(***************************************************************************)
MaxLive == 2
MaxBacklog == 2

\* What the main loop of the consumer does not touch.
idle_vars == <<pc, in_loop, discord_vars, tick_ready, inbox, wire, spawned, ret, hb_unacked,
               steps, seen_seq, resumed, ack_arrived, whole_guild_logs, handshake_vars, history_vars,
               codec_vars>>

Messages == {from_message_received(m, "bot") : m \in MessagesReceived}
LiveResults == {Ret("Ok", "", Some(m)) : m \in Messages} \cup {Ret("Err", "NoAck", None)}
RestResponses ==
    {RestResponse(TRUE, 200, "{}", TRUE), RestResponse(TRUE, 204, "", TRUE),
     RestResponse(TRUE, 304, "", TRUE), RestResponse(TRUE, 403, "{\"code\": 50013}", TRUE),
     RestResponse(TRUE, 500, "", FALSE), RestResponse(FALSE, 0, "", FALSE)}

ConsumerInit ==
    /\ pc = "none"
    /\ in_loop = FALSE
    /\ token = ""
    /\ session_id = ""
    /\ last_seq = 0
    /\ ack = FALSE
    /\ heartbeat_interval = NoInterval
    /\ wsreader = 0
    /\ wswriter = 0
    /\ prebuf = None
    /\ user_id = ""
    /\ tick_ready = FALSE
    /\ inbox = <<>>
    /\ wire = <<>>
    /\ spawned = <<>>
    /\ ret = Pending
    /\ hb_unacked = FALSE
    /\ steps = <<>>
    /\ seen_seq = 0
    /\ resumed = FALSE
    /\ ack_arrived = FALSE
    /\ NoHandshake
    /\ NoHistory
    /\ NoCodec
    /\ whole_guild_logs \in BOOLEAN
    /\ channel_chains = [c \in Channels |-> None]
    /\ guild_chains = [g \in Guilds |-> None]
    /\ encountered_channels = {}
    /\ mk_pc = "loop"
    /\ live = None
    /\ rx = <<>>
    /\ old_messages = <<>>
    /\ send_tasks = 0
    /\ stderr = ""
    /\ rest_res = NoRestResponse
    /\ rest_out = NoRestResult
    /\ lives = 0
    /\ sent = <<>>
    /\ taken = <<>>
    /\ overtaken = FALSE

\* The gateway: the next() main awaits completes.
NextCompletes ==
    /\ mk_pc = "loop"
    /\ live = None
    /\ lives < MaxLive
    /\ \E r \in LiveResults : live' = Some(r)
    /\ lives' = lives + 1
    /\ stderr' = ""
    /\ rest_res' = NoRestResponse
    /\ rest_out' = NoRestResult
    /\ UNCHANGED <<mk_pc, rx, old_messages, send_tasks, sent, taken, overtaken, caller_vars,
                   idle_vars>>

\* markov.rs:81 and 102-164: the result of next() is taken and handled
TakeLive ==
    /\ mk_pc = "loop"
    /\ select_next_or_backlog(live # None, rx # <<>>) = "next"
    /\ live' = None
    /\ overtaken' = (overtaken \/ rx # <<>>)
    /\ rest_res' = NoRestResponse
    /\ rest_out' = NoRestResult
    /\ \E res \in live :
          IF res.tag = "Ok"
          THEN \E msg \in res.msg :
                  LET r == ok_arm(msg, whole_guild_logs, encountered_channels, guild_chains,
                                  channel_chains)
                      fetches == SelectSeq(r.spawned, LAMBDA t : t.call = "channel_messages")
                      posts == SelectSeq(r.spawned, LAMBDA t : t.call = "send_message")
                  IN /\ encountered_channels' = r.encountered_channels
                     /\ guild_chains' = r.guild_chains
                     /\ channel_chains' = r.channel_chains
                     /\ old_messages' = old_messages \o [k \in 1..Len(fetches) |-> fetches[k].gid]
                     /\ send_tasks' = send_tasks + Len(posts)
                     /\ stderr' = IF ~msg.is_me /\ msg.content # "" /\ msg.mentioned /\ posts = <<>>
                                  THEN "Failed to build message" ELSE ""
                     /\ mk_pc' = "loop"
          ELSE /\ \E c \in Conns, i \in ConnInputs :
                     mk_pc' = CASE connect_bot(BotToken, c, i).status = "Ok" -> "loop"
                                [] connect_bot(BotToken, c, i).status = "Err" -> "exited"
                                [] OTHER -> "aborted"
               /\ stderr' = "ERROR"
               /\ UNCHANGED <<caller_vars, old_messages, send_tasks>>
    /\ UNCHANGED <<rx, lives, sent, taken, idle_vars>>

\* markov.rs:85-98: a queued item is taken and fed to its chain
TakeBacklog ==
    /\ mk_pc = "loop"
    /\ select_next_or_backlog(live # None, rx # <<>>) = "backlog"
    /\ LET r == backlog_arm(Head(rx), whole_guild_logs, guild_chains, channel_chains)
       IN /\ guild_chains' = r.guild_chains
          /\ channel_chains' = r.channel_chains
    /\ rx' = Tail(rx)
    /\ taken' = Append(taken, Head(rx).n)
    /\ stderr' = ""
    /\ rest_res' = NoRestResponse
    /\ rest_out' = NoRestResult
    /\ UNCHANGED <<mk_pc, live, old_messages, send_tasks, lives, sent, overtaken,
                   encountered_channels, idle_vars>>

\* markov.rs:42-44: a fetch task got a message from its reader and sends it
FetchSend ==
    /\ mk_pc = "loop"
    /\ Len(sent) < MaxBacklog
    /\ \E k \in 1..Len(old_messages), msg \in Messages :
          LET guild_id == IF msg.guild_id # None THEN msg.guild_id ELSE old_messages[k]
          IN rx' = Append(rx, BacklogMessage(Len(sent) + 1, msg, guild_id))
    /\ sent' = Append(sent, Len(sent) + 1)
    /\ stderr' = ""
    /\ rest_res' = NoRestResponse
    /\ rest_out' = NoRestResult
    /\ UNCHANGED <<mk_pc, live, old_messages, send_tasks, lives, taken, overtaken,
                   caller_vars, idle_vars>>

\* markov.rs:42, 45-49: the reader of a fetch task is exhausted, or its
\* request for a page fails; the task ends.
FetchEnd ==
    /\ mk_pc = "loop"
    /\ \E k \in 1..Len(old_messages) :
          /\ old_messages' = SubSeq(old_messages, 1, k - 1)
                               \o SubSeq(old_messages, k + 1, Len(old_messages))
          /\ \/ /\ stderr' = ""
                /\ rest_res' = NoRestResponse
                /\ rest_out' = NoRestResult
             \/ \E res \in RestResponses :
                   /\ get_success_response_bytes(res).status = "Err"
                   /\ rest_res' = res
                   /\ rest_out' = get_success_response_bytes(res)
                   /\ stderr' = "Failed to get old message"
    /\ UNCHANGED <<mk_pc, live, rx, send_tasks, lives, sent, taken, overtaken,
                   caller_vars, idle_vars>>

\* markov.rs:145-150: a send task gets its response
SendDone ==
    /\ mk_pc = "loop"
    /\ send_tasks > 0
    /\ send_tasks' = send_tasks - 1
    /\ \E res \in RestResponses :
          /\ rest_res' = res
          /\ rest_out' = get_success_response(res)
          /\ stderr' = IF get_success_response(res).status = "Err"
                       THEN "Failed to send message" ELSE ""
    /\ UNCHANGED <<mk_pc, live, rx, old_messages, lives, sent, taken, overtaken,
                   caller_vars, idle_vars>>

ConsumerNext ==
    \/ NextCompletes
    \/ TakeLive
    \/ TakeBacklog
    \/ FetchSend
    \/ FetchEnd
    \/ SendDone

ConsumerSpec == ConsumerInit /\ [][ConsumerNext]_vars

(***************************************************************************)
(* Claims on the handshake keys and the connector.                         *)
(***************************************************************************)
\* The key differs from the derived one in exactly one character.
OneCharacterChanged(key, derived) ==
    /\ Len(key) = Len(derived)
    /\ Cardinality({i \in 1..Len(key) : key[i] # derived[i]}) = 1

(***************************************************************************)
(* C21: the response key is a function of the request key; verify is true  *)
(* for the key derived from the request key and false for every key that   *)
(* differs from the derived one in a single character.                     *)
(***************************************************************************)
C21_VerifyExact ==
    key_ok # None =>
        LET derived == ResponseKey_from(as_ref(key_req))
        IN /\ key_resp = derived => key_ok = Some(TRUE)
           /\ OneCharacterChanged(key_resp, derived) => key_ok = Some(FALSE)
\* The padding that ends the derived key was replaced by a space.
C21_Witness ==
    /\ key_ok = Some(FALSE)
    /\ OneCharacterChanged(key_resp, ResponseKey_from(as_ref(key_req)))
    /\ key_resp[Len(key_resp)] = " "

(***************************************************************************)
(* C25: the RequestKey generated from 16 random bytes is a 22-character    *)
(* base64 string in a buffer of capacity 22, and the ResponseKey a         *)
(* 28-character base64 string in a buffer of capacity 28.                  *)
(***************************************************************************)
C25_RequestKey22 ==
    hs_pc = "verify" =>
        /\ key_req.size = 22
        /\ Len(key_req.bytes) = 22
        /\ Len(ResponseKey_from(as_ref(key_req))) = 28
        /\ MAX_RESPONSE_KEY_LEN = 28
\* C25, as the code has it: the request key is the padded encoding, 24
\* characters in a buffer of capacity 24, and generate never fails on the
\* size of its buffer.
C25_RequestKey24 ==
    /\ hs_pc # "aborted"
    /\ hs_pc = "verify" =>
          /\ key_req.size = 24
          /\ Len(key_req.bytes) = 24
          /\ \A i \in 1..24 : \E k \in 1..Len(STANDARD) : as_ref(key_req)[i] \in {STANDARD[k], "="}
          /\ Len(ResponseKey_from(as_ref(key_req))) = 28
          /\ MAX_RESPONSE_KEY_LEN = 28
\* A generated key, its last two characters the padding.
C25_Witness ==
    /\ hs_pc = "verify"
    /\ key_req.size = 24
    /\ SubSeq(key_req.bytes, 23, 24) = <<"=", "=">>

(***************************************************************************)
(* C24: a destination with a host and no port is connected to on port 443  *)
(* whatever its scheme, with the scheme, the host and the path and query   *)
(* kept; a destination with a port is passed through with that port.       *)
(***************************************************************************)
C24_DefaultPort443 ==
    tls_out # NoTlsResult =>
        /\ (dst.host # None /\ dst.port = None) =>
              /\ tls_out.status = "Ok"
              /\ tls_out.port = 443
              /\ tls_out.uri.port = Some(443)
              /\ tls_out.uri.scheme = dst.scheme
              /\ tls_out.uri.host = dst.host
              /\ tls_out.uri.path_and_query = dst.path_and_query
              /\ Some(tls_out.host) = dst.host
        /\ dst.port # None =>
              /\ tls_out.status = "Ok"
              /\ tls_out.uri = dst
              /\ Some(tls_out.port) = dst.port
\* The gateway's own scheme, for which the inner connector knows no port.
C24_Witness ==
    /\ dst.scheme = Some("wss")
    /\ dst.port = None
    /\ dst.path_and_query = Some("/?v=6")
    /\ tls_out.port = 443

(***************************************************************************)
(* Claims on the acknowledgement slot, the heartbeat and the bring-up.     *)
(***************************************************************************)
\* The step wrote a heartbeat.
HeartbeatWritten == wire' # <<>> /\ wire'[1].op = 1
\* A connect_bot of main succeeded.
FreshConnect == pc \in {"connect", "err"} /\ pc' = "next"

(***************************************************************************)
(* C26: in every state of a session the ack slot is empty exactly when a   *)
(* heartbeat was sent on a tick and no op-11 payload was processed since;  *)
(* it is full right after connect, emptied by each heartbeat send, and     *)
(* refilled only by the processing of an op-11 payload.                    *)
(***************************************************************************)
C26_PendingAck ==
    /\ [](Running => (~ack <=> hb_unacked))
    /\ [][/\ HeartbeatWritten => ~ack'
          /\ FreshConnect => ack'
          /\ (~ack /\ ack') => \/ FrameStep /\ IsAckPayload(Head(inbox))
                               \/ FreshConnect]_vars
\* The heartbeat of the old connection is still pending after a resume.
C26_Witness == pc = "next" /\ ~ack /\ hb_unacked /\ resumed

(***************************************************************************)
(* C27: every heartbeat next() writes carries the sequence number of the   *)
(* payload processed last among those that had one, or that of the ready   *)
(* payload (0 when it had none) if there was none since the connect;       *)
(* a payload without a sequence number leaves last_seq as it was.          *)
(***************************************************************************)
C27_HeartbeatCarriesLastSeq ==
    [][/\ (TickStep /\ HeartbeatWritten) => wire' = <<Heartbeat(wswriter, seen_seq)>>
       /\ (FrameStep /\ Head(inbox).kind = "Text" /\ Head(inbox).payload.json
             /\ Head(inbox).payload.s = None) => last_seq' = last_seq]_vars
\* A heartbeat carrying 0 in a session whose ready payload carried MaxSeq.
C27_Witness ==
    /\ wire # <<>>
    /\ wire[1].op = 1
    /\ wire[1].seq = 0
    /\ session_id = "s2"

\* Step a is in the trace, and step b is not before it.
Precedes(a, b) ==
    \E k \in 1..Len(steps) : steps[k] = a /\ \A j \in 1..k : steps[j] # b

(***************************************************************************)
(* C28: on every connect and resume the gateway URL is resolved, then the  *)
(* upgrade made, then the first frame read as hello and the timer armed,   *)
(* then identify or resume sent, then the confirmation payload read and    *)
(* decoded before the session is Ready; no identify or resume is written   *)
(* before a hello was read.                                                *)
(***************************************************************************)
C28_BringUpOrder ==
    steps # <<>> =>
        /\ \A w \in {"write_identify", "write_resume"} :
              (\E k \in 1..Len(steps) : steps[k] = w) =>
                 /\ Precedes("bot_gateway_url", "connect_gateway")
                 /\ Precedes("connect_gateway", "read_hello")
                 /\ Precedes("read_hello", "interval")
                 /\ Precedes("interval", w)
        /\ pc = "next" =>
              \E w \in {"write_identify", "write_resume"} : Precedes(w, "read_ready")
                                                             /\ steps[Len(steps)] = "read_ready"

(***************************************************************************)
(* C29: a failure of the bring-up is returned as an error value: a first   *)
(* or confirmation frame that is not Text makes connect_bot / reconnect    *)
(* return Err, and never aborts the process.                               *)
(***************************************************************************)
C29_BringUpFailureIsErr ==
    (steps # <<>> /\ pc # "next") => (ret.tag = "Err" /\ pc \in {"err", "exited"})

(***************************************************************************)
(* C30: the first tick handled after a successful resume sends a heartbeat *)
(* and does not raise NoAck, even when a heartbeat of the old connection   *)
(* was unacknowledged when the close frame arrived.                        *)
(***************************************************************************)
C30_ResumeClearsPendingAck ==
    [][(resumed /\ TickStep) => (ret' # NoAckErr /\ (pc' # "err" => HeartbeatWritten))]_vars

(***************************************************************************)
(* Claims on the consumer loop and its tasks.                              *)
(***************************************************************************)
\* A send task ended in the step.
SendStep2 == send_tasks' < send_tasks

C23_LiveBeforeBacklog ==
    /\ [](/\ Len(taken) <= Len(sent)
          /\ taken = SubSeq(sent, 1, Len(taken))
          /\ \A j, k \in 1..Len(taken) : taken[j] = taken[k] => j = k)
    /\ [][/\ Len(rx') < Len(rx) => live = None
          /\ (live # None /\ rx # <<>> /\ (live' = None \/ taken' # taken)) =>
                (live' = None /\ rx' = rx /\ taken' = taken)]_vars
\* A result of next() went before a queued item, and both items were consumed.
C23_Witness ==
    /\ overtaken
    /\ Len(taken) = MaxBacklog
    /\ lives = MaxLive

(***************************************************************************)
(* Claims on what next() does with the heartbeat acknowledgement and with  *)
(* the messages it does not expect.                                        *)
(***************************************************************************)
\* The connection read from has an id; 0 is no connection.
WrittenOnReadConnection(k) == wsreader # 0 /\ wire'[k].conn = wsreader

(***************************************************************************)
(* C31: when the op-11 payload that acknowledges the outstanding heartbeat *)
(* is readable on the transport at the moment a heartbeat tick is handled, *)
(* next() does not return NoAck.                                           *)
(***************************************************************************)
C31_NoAckOnlyWhenUnacknowledged ==
    [][(TickStep /\ ack_arrived) => ret' # NoAckErr]_vars

(***************************************************************************)
(* C32: a message read in next() that is neither Text nor a Close with     *)
(* code 1001 (Binary, Ping, Pong, a Close without a code or with another   *)
(* code) makes next() return UnexpectedWebsocketResponse holding that      *)
(* message; the step that reads a message writes nothing, and whatever is  *)
(* written on the connection that is read from is a heartbeat.             *)
(***************************************************************************)
C32_UnexpectedMessageIsError ==
    [][/\ FrameStep =>
            /\ wire' = <<>>
            /\ LET f == Head(inbox)
                   code == ((f.data[1] * 256) + f.data[2]) % 65536
               IN (\/ f.kind \in {"Binary", "Ping", "Pong"}
                   \/ f.kind = "Close" /\ Len(f.data) < 2
                   \/ f.kind = "Close" /\ Len(f.data) >= 2 /\ code # 1001)
                  => /\ pc' = "err"
                     /\ ret' = Ret("Err", "UnexpectedWebsocketResponse", Some(f))
                     /\ UNCHANGED <<last_seq, ack>>
       /\ \A k \in 1..Len(wire') : WrittenOnReadConnection(k) => wire'[k].op = 1]_vars

C32_Witness ==
    /\ pc = "err"
    /\ ret.err = "UnexpectedWebsocketResponse"
    /\ \E f \in ret.msg : f.kind = "Ping"
    /\ wire = <<>>

(***************************************************************************)
(* Claims on the cursor, the budget and the end of the History Reader.     *)
(***************************************************************************)
\* next() returns an error in this step: the request or its decoding failed.
FailStep == cm_pc = "request" /\ cm_ret'.kind = "Err"

\* self.limit as it was when the call that issued the request began: the
\* page asked for was taken off it (discord.rs:153-154).
LimitAtCall ==
    IF limit = None THEN None ELSE Some(page_limit + (CHOOSE n \in limit : TRUE))

(***************************************************************************)
(* C33: a request for the first page carries the before the caller gave,   *)
(* and none when the caller gave none; every request issued after items    *)
(* were yielded carries before = the id of the last item yielded; the      *)
(* cursor sent is never the id of an item not yet yielded.                 *)
(***************************************************************************)
C33_CursorIsLastYielded ==
    [][SendStep =>
         /\ yielded = <<>> => uri'.before = before_msg
         /\ yielded # <<>> => uri'.before = Some(yielded[Len(yielded)])
         /\ uri'.before \subseteq
               (before_msg \cup {yielded[i] : i \in 1..Len(yielded)})]_vars

(***************************************************************************)
(* C34: when next() returns an error, the remaining budget and the before  *)
(* cursor have the values they had before the call, so that the next call  *)
(* asks for the same page with the same limit and cursor.                  *)
(***************************************************************************)
C34_FailedFetchKeepsCursor ==
    [][FailStep => (next_msg_id' = uri.before /\ limit' = LimitAtCall)]_vars

(***************************************************************************)
(* C35: while the caller keeps calling next() and every request is         *)
(* answered, the reader comes to return Ok(None), with a budget and        *)
(* without one; once next() has returned Ok(None) every later call returns *)
(* Ok(None), yields nothing and issues no request.                         *)
(***************************************************************************)
C35_EndStickyAndReached ==
    /\ [][cm_ret.kind = "End" =>
            /\ cm_ret'.kind = "End"
            /\ cm_pc' = "idle"
            /\ requested' = requested
            /\ yielded' = yielded
            /\ uri' = NoUri]_vars
    /\ <>[](cm_ret.kind = "End")

C35_Witness ==
    /\ cm_ret.kind = "End"
    /\ ends = MaxEnds
    /\ budget = None
    /\ srv_total = 201
    /\ Len(requested) >= 3
    /\ limit = Some(0)

(***************************************************************************)
(* Claims on Owned::read over frames in any order and on Message::write.   *)
(***************************************************************************)
\* Owned::read has returned, on the frames of the peer / on a written message
FramesRead == cx_pc = "owned_done" /\ frames # <<>>
MessageRead == cx_pc = "owned_done" /\ wr_msg # NoWrite

IsFinal(k) == frames[k].header.is_final
HasFinal == \E k \in 1..Len(frames) : IsFinal(k)
\* The first final frame: the last frame of the first message.
FirstFinal == CHOOSE k \in 1..Len(frames) : IsFinal(k) /\ \A j \in 1..(k - 1) : ~IsFinal(j)
\* Every frame is followed by a header of its own: none is a non-final
\* Continuation.
NoOpenContinuation ==
    \A k \in 1..Len(frames) : frames[k].header.kind = "Continuation" => IsFinal(k)

(***************************************************************************)
(* C36: a message whose first frame is a Continuation, final or not, is    *)
(* refused by Owned::read with InvalidDataFrame and nothing past that      *)
(* frame is consumed; no Owned has the kind Continuation.                  *)
(***************************************************************************)
C36_ContinuationFirstRejected ==
    /\ rd_owned.kind # "Continuation"
    /\ (FramesRead /\ frames[1].header.kind = "Continuation")
          => /\ rd_owned.status = "InvalidDataFrame"
             /\ rd_owned.rest = wire_bytes(Tail(frames)) \o trailer

(***************************************************************************)
(* C37: after a non-final Text or Binary frame, of any payload length,     *)
(* a following frame that is not a Continuation makes Owned::read fail     *)
(* with InvalidDataFrame.                                                  *)
(***************************************************************************)
C37_OnlyContinuationAfterFragment ==
    (/\ FramesRead
     /\ Len(frames) >= 2
     /\ frames[1].header.kind \in {"Text", "Binary"}
     /\ ~IsFinal(1)
     /\ frames[2].header.kind # "Continuation")
    => rd_owned.status = "InvalidDataFrame"

OneFinalFrame(bytes) ==
    LET h == Header_read(bytes)
    IN /\ h.status = "Ok"
       /\ h.header.is_final
       /\ Len(h.rest) = as_usize(h.header.payload_len)

(***************************************************************************)
(* C39: for every message M, with an empty payload too and with a control  *)
(* payload of more than 125 bytes, and in both contexts, Message::write    *)
(* emits exactly one final frame, and Owned::read on what it emitted gives *)
(* a message equal to M and consumes exactly that frame.                   *)
(***************************************************************************)
C39_WriteReadRoundTrip ==
    MessageRead =>
       /\ OneFinalFrame(Message_write(wr_msg.msg, wr_msg.ctx, wr_msg.mask).bytes)
       /\ rd_owned.status = "Ok"
       /\ Owned_message(rd_owned) = wr_msg.msg
       /\ rd_owned.rest = trailer

(***************************************************************************)
(* Claims on the opcodes and the reserved bits of a header.                *)
(***************************************************************************)
\* The first byte with its three reserved bits cleared.
WithoutReservedBits(first) == (128 * (first \div 128)) + (first % 16)

(***************************************************************************)
(* C40: Header::read fails with ReservedOpcode for exactly the opcodes 3-7 *)
(* and 11-15, whatever the final flag and the reserved bits are, and takes *)
(* 0, 1, 2, 8, 9, 10 as Continuation, Text, Binary, Close, Ping, Pong; the *)
(* reserved bits are carried into the header it returns and reject         *)
(* nothing.                                                                *)
(***************************************************************************)
C40_ReservedOpcodes ==
    [][cx_pc = "raw" =>
         LET first == stream[1]
             op == first % 16
             r == rd_header'
         IN /\ r.status = "ReservedOpcode" <=> op \in (3..7) \cup (11..15)
            /\ r.status = "Ok" =>
                  /\ r.header.kind =
                        <<"Continuation", "Text", "Binary", "", "", "", "", "",
                          "Close", "Ping", "Pong">>[op + 1]
                  /\ r.header.is_final = (first >= 128)
                  /\ r.header.extensions =
                        <<(first \div 64) % 2 = 1, (first \div 32) % 2 = 1,
                          (first \div 16) % 2 = 1>>
            /\ r.status =
                  Header_read(<<WithoutReservedBits(first)>> \o Tail(stream)).status]_vars

C40_Witness ==
    /\ cx_pc = "raw_done"
    /\ rd_header.status = "Ok"
    /\ rd_header.header.kind = "Pong"
    /\ rd_header.header.extensions = <<TRUE, FALSE, TRUE>>
    /\ rd_header.header.is_final

=============================================================================
